---------------------------- MODULE Spec2Model ----------------------------
(***************************************************************************)
(* A model of the HIL2 test engine (LelsersLasers/PER-HIL2).               *)
(*                                                                         *)
(*   - the wire codec and the serial engine's reader task                  *)
(*     (hil2/commands.py, hil2/serial_helper.py),                          *)
(*   - the CAN message store and the CAN actions of the dispatcher         *)
(*     (hil2/can_helper.py, hil2/test_device.py),                          *)
(*   - name resolution, the shutdown registry and the scoped teardown of   *)
(*     the facade (hil2/hil2.py, hil2/net_map.py, hil2/dut_cons.py).       *)
(*                                                                         *)
(* Three specifications share the variables:                               *)
(*   SpecParser  the device sends bytes, the reader task parses them;      *)
(*   SpecCan     the same, plus the foreground CAN actions;                *)
(*   SpecFacade  the facade operations of one test session.                *)
(***************************************************************************)
EXTENDS Integers, Sequences, FiniteSets, TLC

VARIABLES
    \* ---- serial engine of device Eng (serial_helper.ThreadedSerial) ----
    serial_in,            \* bytes the device has sent and the reader has not read yet
    readings,             \* ThreadedSerial.readings: the parser's input buffer
    parsed_readings,      \* ThreadedSerial.parsed_readings: opcode -> payload
    parsed_can_messages,  \* ThreadedSerial.parsed_can_messages: bus -> list of frames
    sent,                 \* history: what the device transmitted, frame by frame
    emitted,              \* history: every store/append parse_readings made, in order
    \* ---- per device threads and links ----
    stop_event,           \* device -> BOOLEAN: ThreadedSerial.stop_event
    reader,               \* device -> "running" | "crashed" | "closed"
    \* ---- CAN store of device Eng (TestDevice.device_can_busses) ----
    device_can_busses,    \* bus -> list of CanMessage
    ret,                  \* result of the last foreground CAN action
    \* ---- facade (hil2.Hil2) ----
    maybe_net_map,        \* Hil2._maybe_net_map: None or the set of loaded entries
    shutdown_components,  \* Hil2._shutdown_components: insertion-ordered dict
    events,               \* history: frames written to the links and stop() calls
    touched,              \* history: outputs a set_*/hiZ_* call has driven
    last,                 \* outcome of the last facade operation
    scope,                \* "open" | "exited": the with-block of the facade
    \* ---- foreground command on the link of Eng (commands.py) ----
    call,                 \* the command function in progress or last finished
    \* ---- discovery (serial_helper.discover_devices, commands.read_id) ----
    disc                  \* candidate ports, scan buffer and result of the discovery

vars == << serial_in, readings, parsed_readings, parsed_can_messages, sent, emitted,
           stop_event, reader, device_can_busses, ret,
           maybe_net_map, shutdown_components, events, touched, last, scope,
           call, disc >>

engineVars == << serial_in, readings, parsed_readings, parsed_can_messages, sent, emitted >>
canVars    == << device_can_busses, ret >>
facadeVars == << maybe_net_map, shutdown_components, events, touched, last, scope >>
callVars   == << call >>
discVars   == << disc >>

(***************************************************************************)
(* Bounds of the model.                                                    *)
(***************************************************************************)
MaxFrames == 2      \* transmissions of the device in one behaviour
MaxCanLen == 2      \* longest RECV_CAN payload the device sends (protocol: 8)
MaxChunk  == 3      \* bytes handed to the parser between two parser runs
MaxEvents == 2      \* frames written to the links before the session is torn down
MaxRegistered == 2  \* distinct (board, net) pairs registered in one session
MaxChannel == 3     \* highest mux line number a port name carries
MaxCalls == 2       \* foreground commands issued on one link
MaxDispatch == 1    \* dispatcher calls, drawn from the whole (action, name) table
MaxAnswers == 1     \* frames the device sends while commands are issued
MaxPolls == 2       \* GET_TIMEOUT / SLEEP_INTERVAL: polls before the deadline (code: 50)
MaxGarbage == 2     \* boot garbage bytes a port emits before the READ_ID response
MaxRead == 4        \* bytes one read of the raw port returns during the preamble scan
MaxPorts == 2       \* candidate serial ports of a discovery
MaxTests == 2       \* tests handed to the test runner in one session

(***************************************************************************)
(* Command opcodes (commands.py).                                          *)
(***************************************************************************)
READ_ID    == 0
WRITE_GPIO == 1
HIZ_GPIO   == 2
READ_GPIO  == 3
WRITE_DAC  == 4
HIZ_DAC    == 5
READ_ADC   == 6
WRITE_POT  == 7
SEND_CAN   == 8
RECV_CAN   == 9
ERROR      == 10

SERIAL_RESPONSES_with_sync == {READ_ID, READ_GPIO, READ_ADC, RECV_CAN, ERROR, 222}

SERIAL_RESPONSES == {READ_ID, READ_GPIO, READ_ADC, RECV_CAN, ERROR}

(***************************************************************************)
(* Python helpers: dictionaries as functions with a growing domain, list   *)
(* slices.                                                                 *)
(***************************************************************************)
EmptyDict == [k \in {} |-> <<>>]

\* A store that keeps the value a key already has.
DictSet_keep_first(d, k, v) == [x \in (DOMAIN d) \cup {k} |-> IF x \in DOMAIN d THEN d[x] ELSE v]

DictSet(d, k, v) == [x \in (DOMAIN d) \cup {k} |-> IF x = k THEN v ELSE d[x]]

\* A pop that returns the value and leaves it in the dictionary.
DictPop_keep(d, k) == d

DictPop(d, k) == [x \in (DOMAIN d) \ {k} |-> d[x]]

Min(a, b) == IF a <= b THEN a ELSE b

\* s[n:]
SliceFrom(s, n) == SubSeq(s, n + 1, Len(s))

\* s[a:b]
Slice(s, a, b) == SubSeq(s, a + 1, Min(b, Len(s)))


(***************************************************************************)
(* The managed HIL devices.  Eng is the device whose serial engine is      *)
(* modelled byte by byte.                                                  *)
(***************************************************************************)
TestDevices == {"X", "Y"}

Eng == "X"

(***************************************************************************)
(* Inbound frames the device sends (commands.py, lines 16-27).             *)
(* Payload bytes are drawn from small sets that contain values equal to    *)
(* opcodes, so that a payload byte can be mistaken for a frame start.      *)
(***************************************************************************)
IdBytes   == {1, 9}
AdcBytes  == {0, 8}
CanBusses == {1, 2}
CanIdBytes == { <<0, 0, 1, 35>>, <<0, 0, 1, 36>> }
DataBytes == {85, 10}

\* Payloads of n bytes: n times the same data byte.
DataOfLen(n) == { [i \in 1..n |-> b] : b \in DataBytes }

ReadIdFrames   == { <<READ_ID, v>> : v \in IdBytes }
ReadGpioFrames == { <<READ_GPIO, v>> : v \in {0, 1} }
ReadAdcFrames  == { <<READ_ADC, hi, lo>> : hi \in AdcBytes, lo \in AdcBytes }
RecvCanFrames(ids) ==
    UNION { { <<RECV_CAN, b>> \o id \o <<n>> \o d : b \in CanBusses, id \in ids, d \in DataOfLen(n) }
            : n \in 0..MaxCanLen }
ErrorFrames    == { <<ERROR, c>> : c \in {READ_GPIO, WRITE_POT} }

\* The frames of the parser contract: complete, valid, and not ERROR.
InboundFrames == ReadIdFrames \cup ReadGpioFrames \cup ReadAdcFrames
                 \cup RecvCanFrames({ <<0, 0, 1, 35>> })

\* Bytes that are no response opcode: the sync byte 0xDE, an echoed command opcode, 0xFF.
GarbageBytes == {222, WRITE_POT, 255}

(***************************************************************************)
(* commands.parse_readings: parse the first reading if possible.           *)
(* The result carries the return value (processed, rest), the two          *)
(* dictionaries as the call left them, the exception raised (if any) and   *)
(* the frame the call stored or appended (out).                            *)
(***************************************************************************)
ParseResult(processed, rest, pr, pc, err, out) ==
    [processed |-> processed, rest |-> rest, pr |-> pr, pc |-> pc, err |-> err, out |-> out]

\* Number of bytes the sequence pattern of a fixed-length response needs:
\* [cmd, value, *rest] for READ_ID and READ_GPIO, [cmd, high, low, *rest] for READ_ADC.
ResponseLength_adc_short(cmd) == 2

ResponseLength(cmd) == IF cmd = READ_ADC THEN 3 ELSE 2

\* The guard of the RECV_CAN case: seven header bytes and len(rest) >= length.
CanFrameComplete_no_length_check(rd) == Len(rd) >= 7 /\ rd[1] = RECV_CAN

CanFrameComplete(rd) == Len(rd) >= 7 /\ rd[1] = RECV_CAN /\ Len(rd) - 7 >= rd[7]

parse_readings(rd, pr, pc) ==
    IF rd = <<>>
    THEN ParseResult(FALSE, <<>>, pr, pc, "none", <<>>)
    ELSE IF rd[1] \in {READ_ID, READ_GPIO, READ_ADC} /\ Len(rd) >= ResponseLength(rd[1])
    THEN LET n == ResponseLength(rd[1])
             payload == Slice(rd, 1, n)
         IN  ParseResult(TRUE, SliceFrom(rd, n), DictSet(pr, rd[1], payload), pc,
                         "none", << <<rd[1]>> \o payload >>)
    ELSE IF CanFrameComplete(rd)
    THEN LET bus    == rd[2]
             length == rd[7]
             rest   == SliceFrom(rd, 7)
             data   == Slice(rest, 0, length)
             frame  == Slice(rd, 1, 7) \o data
             old    == IF bus \in DOMAIN pc THEN pc[bus] ELSE <<>>
         IN  ParseResult(TRUE, SliceFrom(rest, length), pr,
                         DictSet(pc, bus, Append(old, frame)),
                         "none", << <<rd[1]>> \o frame >>)
    ELSE IF Len(rd) >= 2 /\ rd[1] = ERROR
    THEN ParseResult(FALSE, rd, pr, pc, "SerialError", <<>>)
    ELSE IF rd[1] \notin SERIAL_RESPONSES
    THEN ParseResult(FALSE, rd, pr, pc, "SerialError", <<>>)
    ELSE ParseResult(FALSE, rd, pr, pc, "none", <<>>)

(***************************************************************************)
(* ThreadedSerial._process_readings: call parse_readings while it reports  *)
(* progress.  An exception leaves self.readings as the failing call got    *)
(* it; what earlier iterations stored stays stored.                        *)
(***************************************************************************)
RECURSIVE ProcessLoop(_, _, _, _)
ProcessLoop(rd, pr, pc, out) ==
    LET r == parse_readings(rd, pr, pc)
    IN  IF r.err # "none" THEN [rest |-> rd, pr |-> r.pr, pc |-> r.pc, err |-> r.err, out |-> out]
        ELSE IF r.processed THEN ProcessLoop(r.rest, r.pr, r.pc, out \o r.out)
        ELSE [rest |-> r.rest, pr |-> r.pr, pc |-> r.pc, err |-> "none", out |-> out \o r.out]

\* A parser that, when it fails, forgets the frames it parsed in the same run.
process_readings_forgetful(rd, pr, pc) ==
    LET r == ProcessLoop(rd, pr, pc, <<>>)
    IN  IF r.err # "none" THEN [r EXCEPT !.pr = pr, !.pc = pc, !.out = <<>>]
        ELSE r

process_readings(rd, pr, pc) == ProcessLoop(rd, pr, pc, <<>>)

\* The value the SerialError of parse_readings names in its message: the command
\* byte of an ERROR frame, or the unexpected first byte.
serial_error_names(rd) == IF rd[1] = ERROR THEN rd[2] ELSE rd[1]

(***************************************************************************)
(* Initial state: the facade is constructed, every device has a running    *)
(* reader thread (TestDeviceManager.from_json), nothing has been received. *)
(***************************************************************************)
NoRet == [op |-> "none"]

\* A (board, net) pair; the key of the net map and of the shutdown registry.
BN(board, net) == << board, net >>

\* Port tables of the managed devices (device configuration JSON).
DevicePorts(d) ==
    IF d = "X"
    THEN { [name |-> "DO1", port |-> 1, mode |-> "DO"],
           [name |-> "DI1", port |-> 2, mode |-> "DI"],
           [name |-> "AO1", port |-> 3, mode |-> "AO"],
           [name |-> "AI1", port |-> 8, mode |-> "AI5"],
           [name |-> "POT1", port |-> 9, mode |-> "POT"] }
    ELSE { [name |-> "DO1", port |-> 1, mode |-> "DO"],
           [name |-> "AO2", port |-> 3, mode |-> "AO"],
           [name |-> "POT2", port |-> 9, mode |-> "POT"],
           [name |-> "YMUX_0", port |-> 8, mode |-> "DO"],
           [name |-> "YMUX_1", port |-> 7, mode |-> "DI"] }

\* Mux tables of the managed devices: select pins in declared order, and the data pin.
DeviceMuxs(d) ==
    IF d = "X"
    THEN { [name |-> "DMUX", mode |-> "DO", select_ports |-> <<5, 4>>, port |-> 6],
           [name |-> "IMUX", mode |-> "DI", select_ports |-> <<7>>, port |-> 10],
           [name |-> "AMUX", mode |-> "AI", select_ports |-> <<7>>, port |-> 11] }
    ELSE { [name |-> "YMUX", mode |-> "DO", select_ports |-> <<5>>, port |-> 6] }

\* Device Y is configured without "dac_config" and "pot_config" (both Optional).
HasDacConfig(d) == d = "X"

HasPotConfig(d) == d = "X"

\* POT calibration of every device, in ohms.
PotConfig == [bit_resolution |-> 8, reference_ohms |-> 100, wiper_ohms |-> 5]

\* DAC calibration of every device; volts are counted in tenths of a volt.
DacConfig == [bit_resolution |-> 8, reference_v |-> 33]

\* Harness wiring (test configuration JSON): board -> (connector, pin) -> HIL connection.
HarnessBoards == {"Dash", "X"}
Harness(board) ==
    IF board = "Dash"
    THEN { [connector |-> "J3", pin |-> 9, device |-> "X", port |-> "DO1"],
           [connector |-> "J3", pin |-> 10, device |-> "X", port |-> "AO1"] }
    ELSE { [connector |-> "J1", pin |-> 1, device |-> "Y", port |-> "DO1"] }

\* Net maps a session may load (net map CSV): (board, net) -> (component, designator).
NetMapDash ==
    { [key |-> BN("Dash", "BRK"), component |-> "J3", designator |-> 9],
      [key |-> BN("Dash", "NC"),  component |-> "J3", designator |-> 11] }

NetMapChoices ==
    { [loaded |-> FALSE, entries |-> {}],
      [loaded |-> TRUE,  entries |-> {}],
      [loaded |-> TRUE,  entries |-> NetMapDash],
      [loaded |-> TRUE,  entries |-> NetMapDash \cup
                           { [key |-> BN("X", "DO1"), component |-> "J1", designator |-> 1] }] }

NoLast == [op |-> "none", board |-> "", net |-> "", exc |-> "none", resolved |-> FALSE,
           res |-> [exc |-> "none", device |-> "", port |-> ""], attempted |-> 0, reg0 |-> 0]

\* No foreground command has been issued on the link of Eng yet.
NoCall == [n |-> 0, action |-> [type |-> "none", value |-> FALSE], port |-> "",
           state |-> "idle", polls |-> 0, exc |-> "none", value |-> <<>>, seen |-> 0,
           wrote |-> 0]

\* The session's devices were attached without a discovery scan in progress.
NoDisc == [pc |-> "attached"]

InitEngine ==
    /\ serial_in = <<>>
    /\ readings = <<>>
    /\ parsed_readings = EmptyDict
    /\ parsed_can_messages = EmptyDict
    /\ sent = <<>>
    /\ emitted = <<>>
    /\ stop_event = [d \in TestDevices |-> FALSE]
    /\ reader = [d \in TestDevices |-> "running"]
    /\ device_can_busses = [b \in CanBusses |-> <<>>]
    /\ ret = NoRet
    /\ call = NoCall

InitFacade ==
    /\ maybe_net_map \in NetMapChoices
    /\ shutdown_components = <<>>
    /\ events = <<>>
    /\ touched = {}
    /\ last = NoLast
    /\ scope = "open"

Init == InitEngine /\ InitFacade /\ disc = NoDisc

\* A session constructed without a net map: the link and the CAN store never read it.
InitNoNetMap == Init /\ ~maybe_net_map.loaded

(***************************************************************************)
(* The device side of the link of Eng.                                     *)
(***************************************************************************)
Transmit(bytes) ==
    /\ Len(sent) < MaxFrames
    /\ serial_in' = serial_in \o bytes
    /\ sent' = Append(sent, bytes)
    /\ UNCHANGED << readings, parsed_readings, parsed_can_messages, emitted,
                    stop_event, reader, canVars, callVars, discVars, facadeVars >>

DeviceSendFrame == \E f \in InboundFrames : Transmit(f)

DeviceSendError == \E f \in ErrorFrames : Transmit(f)

DeviceSendGarbage == \E b \in GarbageBytes : Transmit(<<b>>)

(***************************************************************************)
(* One iteration of ThreadedSerial.run: read, then process under the lock. *)
(* The reader reads one byte per iteration (k = 1); k > 1 hands the parser *)
(* a longer chunk, which is how the parser contract is stated.  An         *)
(* exception of the parser ends the thread without closing the link.       *)
(***************************************************************************)
ReaderStep(k) ==
    /\ reader[Eng] = "running"
    /\ ~stop_event[Eng]
    /\ k <= Len(serial_in)
    /\ LET r == process_readings(readings \o SubSeq(serial_in, 1, k),
                                 parsed_readings, parsed_can_messages)
       IN  /\ serial_in' = SliceFrom(serial_in, k)
           /\ readings' = r.rest
           /\ parsed_readings' = r.pr
           /\ parsed_can_messages' = r.pc
           /\ emitted' = emitted \o r.out
           /\ reader' = IF r.err = "none" THEN reader ELSE [reader EXCEPT ![Eng] = "crashed"]
    /\ UNCHANGED << sent, stop_event, canVars, callVars, discVars, facadeVars >>

ReaderRun == \E k \in 1..MaxChunk : ReaderStep(k)

NextParser == DeviceSendFrame \/ DeviceSendError \/ DeviceSendGarbage \/ ReaderRun

SpecParser == InitNoNetMap /\ [][NextParser]_vars

(***************************************************************************)
(* C1  Parser totality.  When the device has sent only complete valid      *)
(* frames (READ_ID, READ_GPIO, READ_ADC, RECV_CAN) and the reader has      *)
(* taken the last byte, in chunks of any sizes, the frames the parser      *)
(* stored or appended are exactly the frames sent, in the order sent, the  *)
(* input buffer is empty and the parser has not failed.                    *)
(***************************************************************************)
CleanLine ==
    \A i \in 1..Len(sent) :
        /\ sent[i][1] \in {0, 3, 6, 9}
        /\ Len(sent[i]) = (CASE sent[i][1] = 6 -> 3
                             [] sent[i][1] = 9 -> 7 + sent[i][7]
                             [] OTHER -> 2)

C1_ParserTotality ==
    (CleanLine /\ serial_in = <<>>) =>
        (emitted = sent /\ readings = <<>> /\ reader[Eng] = "running")

C1_Witness ==
    /\ CleanLine /\ serial_in = <<>> /\ Len(sent) >= 2
    /\ emitted = sent
    /\ \E i \in 1..Len(sent) : sent[i][1] = 9 /\ sent[i][7] >= 1
    /\ \E i \in 1..Len(sent) : sent[i][1] = 6

(***************************************************************************)
(* C7  Parser desync detection.  Whenever the parser's input buffer starts *)
(* with a byte that is none of the response opcodes 0, 3, 6, 9, 10, the    *)
(* parser fails with SerialError on it, whatever follows that byte; the    *)
(* reader that called it has ended.                                        *)
(***************************************************************************)
C7_DesyncDetected ==
    (readings # <<>> /\ readings[1] \notin {0, 3, 6, 9, 10}) =>
        /\ parse_readings(readings, parsed_readings, parsed_can_messages).err = "SerialError"
        /\ reader[Eng] = "crashed"

C7_Witness ==
    /\ Len(readings) >= 2
    /\ readings[1] = 222
    /\ reader[Eng] = "crashed"

(***************************************************************************)
(* C8  Incomplete frame.  When the buffer holds only a proper prefix of a  *)
(* valid inbound frame, parse_readings reports no progress, raises         *)
(* nothing, and leaves the buffer and both dictionaries as they were.      *)
(***************************************************************************)
IsProperPrefix(buf, f) == Len(buf) < Len(f) /\ SubSeq(f, 1, Len(buf)) = buf

\* The bytes a step of the reader took from the link, and the buffer it parsed.
TakenBytes == SubSeq(serial_in, 1, Len(serial_in) - Len(serial_in'))

C8_IncompleteFrame ==
    [][ (/\ Len(serial_in') < Len(serial_in)
         /\ \E f \in InboundFrames \cup ErrorFrames : IsProperPrefix(readings \o TakenBytes, f))
        => (/\ readings' = readings \o TakenBytes
            /\ parsed_readings' = parsed_readings
            /\ parsed_can_messages' = parsed_can_messages
            /\ emitted' = emitted
            /\ reader' = reader) ]_vars

C8_Witness ==
    /\ Len(readings) = 8
    /\ readings[1] = 9
    /\ readings[7] = 2
    /\ Len(emitted) >= 1


(***************************************************************************)
(* CAN: the DBC codec (an external collaborator), the decoding of drained  *)
(* frames, the message store, and the CAN actions of the dispatcher.       *)
(***************************************************************************)
\* A signal is a message name (str) or a frame id (int); None is no filter.
\* Python's == between an int and a str is False, never an error.
IntSig(i) == [t |-> "int", i |-> i, s |-> ""]
StrSig(n) == [t |-> "str", i |-> 0, s |-> n]
NoneSig   == [t |-> "none", i |-> 0, s |-> ""]

PyEq(a, b) == a.t = b.t /\ a.i = b.i /\ a.s = b.s

\* The DBC database: message name -> frame id.
DbcFrameId(name) == IF name = "Foo" THEN 291 ELSE 292
DbcNames == {"Foo", "Bar"}
DbcIds == { DbcFrameId(n) : n \in DbcNames }

\* Device configuration of Eng: CAN bus name -> bus index.
CanBusName == {"VCAN", "MCAN"}
CanBusIndex(name) == IF name = "VCAN" THEN 1 ELSE 2

\* decode() of commands.parse_can_messages: values = [bus, id x4, len, data...].
DecodeSignal(values) ==
    (values[2] * 16777216 + values[3] * 65536 + values[4] * 256 + values[5]) % 536870912

DecodeData(values) == Slice(values, 6, 6 + values[6])

CanMessage(signal, data) == [signal |-> signal, data |-> data]

\* can_dbc.decode_message raises for a frame id the database does not know;
\* decode() then logs and returns None, and the frame is dropped.
RECURSIVE DecodeAll(_)
DecodeAll(frames) ==
    IF frames = <<>> THEN <<>>
    ELSE LET signal == DecodeSignal(Head(frames))
             tail   == DecodeAll(Tail(frames))
         IN  IF signal \in DbcIds
             THEN << CanMessage(IntSig(signal), DecodeData(Head(frames))) >> \o tail
             ELSE tail

\* ThreadedSerial.get_parsed_can_messages: pop(bus, []).
QueuedCan(bus) == IF bus \in DOMAIN parsed_can_messages THEN parsed_can_messages[bus] ELSE <<>>

\* CanMessageManager
SignalMatches(msg, signal) == PyEq(msg.signal, signal)

\* A store that inserts at the front instead of appending.
add_multiple_front(messages, new) == new \o messages

add_multiple(messages, new) == messages \o new

\* A store that answers with the oldest matching message.
get_last_first(messages, signal) ==
    IF signal = NoneSig
    THEN (IF messages # <<>> THEN << messages[1] >> ELSE <<>>)
    ELSE LET hits == { i \in 1..Len(messages) : SignalMatches(messages[i], signal) }
         IN  IF hits = {} THEN <<>>
             ELSE << messages[CHOOSE i \in hits : \A j \in hits : i <= j] >>

\* A store that forgets everything on any clear.
clear_all(messages, signal) == <<>>

RECURSIVE LastMatch(_, _, _)
LastMatch(messages, signal, i) ==
    IF i = 0 THEN <<>>
    ELSE IF SignalMatches(messages[i], signal) THEN << messages[i] >>
    ELSE LastMatch(messages, signal, i - 1)

\* The result is a list of zero (None) or one message.
get_last(messages, signal) ==
    IF signal = NoneSig
    THEN (IF messages # <<>> THEN << messages[Len(messages)] >> ELSE <<>>)
    ELSE LastMatch(messages, signal, Len(messages))

get_all(messages, signal) ==
    SelectSeq(messages, LAMBDA msg : signal = NoneSig \/ SignalMatches(msg, signal))

clear(messages, signal) ==
    IF signal = NoneSig THEN <<>>
    ELSE SelectSeq(messages, LAMBDA msg : ~SignalMatches(msg, signal))

\* A device that leaves the queued frames where they are.
UpdatedStore_no_drain(bus) == device_can_busses[bus]

\* TestDevice._update_can_messages: drain the bus queue, decode, extend the store.
UpdatedStore(bus) == add_multiple(device_can_busses[bus], DecodeAll(QueuedCan(bus)))

Filters == {NoneSig} \cup { IntSig(i) : i \in DbcIds } \cup { StrSig(n) : n \in DbcNames }

\* The frames the device sends in SpecCan: both ids, both busses, empty and 2-byte data.
CanTraffic ==
    { <<RECV_CAN, b>> \o id \o <<Len(d)>> \o d :
        b \in CanBusses, id \in CanIdBytes, d \in { <<>>, <<85, 102>> } }

DeviceSendCan == \E f \in CanTraffic : Transmit(f)

\* TestDevice.do_action with GetLastCan / GetAllCan / ClearCan on a CAN bus name.
CanAction(op, name, signal) ==
    LET bus   == CanBusIndex(name)
        store == UpdatedStore(bus)
    IN  /\ parsed_can_messages' = DictPop(parsed_can_messages, bus)
        /\ device_can_busses' =
              [device_can_busses EXCEPT ![bus] = IF op = "clear_can" THEN clear(store, signal) ELSE store]
        /\ ret' = [op |-> op, bus |-> bus, signal |-> signal,
                   value |-> CASE op = "get_last_can" -> get_last(store, signal)
                               [] op = "get_all_can"  -> get_all(store, signal)
                               [] OTHER               -> <<>>]
        /\ UNCHANGED << serial_in, readings, parsed_readings, sent, emitted,
                        stop_event, reader, facadeVars, callVars, discVars >>

get_last_can == \E name \in CanBusName, signal \in Filters : CanAction("get_last_can", name, signal)

get_all_can == \E name \in CanBusName, signal \in Filters : CanAction("get_all_can", name, signal)

clear_can == \E name \in CanBusName, signal \in Filters : CanAction("clear_can", name, signal)

NextCan == DeviceSendCan \/ ReaderRun \/ get_last_can \/ get_all_can \/ clear_can

SpecCan == InitNoNetMap /\ [][NextCan]_vars

\* The store on its own: the reader thread takes everything that has arrived
\* before the test thread runs again.
ReaderDrain == serial_in # <<>> /\ ReaderStep(Len(serial_in))

\* Two messages of one id that differ in their data, a message of the other id,
\* and a message on the other bus.
StoreTraffic ==
    { <<RECV_CAN, 1, 0, 0, 1, 35, 0>>, <<RECV_CAN, 1, 0, 0, 1, 35, 2, 85, 102>>,
      <<RECV_CAN, 1, 0, 0, 1, 36, 0>>, <<RECV_CAN, 2, 0, 0, 1, 35, 0>> }

DeviceSendStore == \E f \in StoreTraffic : Transmit(f)

NextStore == DeviceSendStore \/ ReaderDrain \/ get_last_can \/ get_all_can \/ clear_can

SpecStore == InitNoNetMap /\ [][NextStore]_vars

(***************************************************************************)
(* C6  CAN retrieval by name.  A received frame with CAN id X that is in   *)
(* the store of its bus is returned by get_last_can and get_all_can, and   *)
(* removed by clear_can, when the filter is the DBC message name whose     *)
(* frame id is X, as it is when the filter is the numeric id X.            *)
(***************************************************************************)
StoredIds(bus) == { device_can_busses[bus][i].signal.i : i \in 1..Len(device_can_busses[bus]) }

FilterId(signal) == IF signal.t = "str" THEN DbcFrameId(signal.s) ELSE signal.i

C6_RetrievalByName ==
    (ret.op # "none" /\ ret.signal # NoneSig) =>
        LET X == FilterId(ret.signal)
        IN  /\ (ret.op = "get_last_can" /\ X \in StoredIds(ret.bus)) =>
                   (ret.value # <<>> /\ ret.value[1].signal.i = X)
            /\ (ret.op = "get_all_can" /\ X \in StoredIds(ret.bus)) =>
                   (ret.value # <<>> /\ \A i \in 1..Len(ret.value) : ret.value[i].signal.i = X)
            /\ (ret.op = "clear_can") => X \notin StoredIds(ret.bus)

\* The same statement for numeric filters only, which the store satisfies.
C6_RetrievalById ==
    (ret.op # "none" /\ ret.signal.t = "int") =>
        LET X == ret.signal.i
        IN  /\ (ret.op = "get_last_can" /\ X \in StoredIds(ret.bus)) =>
                   (ret.value # <<>> /\ ret.value[1].signal.i = X)
            /\ (ret.op = "get_all_can" /\ X \in StoredIds(ret.bus)) =>
                   (ret.value # <<>> /\ \A i \in 1..Len(ret.value) : ret.value[i].signal.i = X)
            /\ (ret.op = "clear_can") => X \notin StoredIds(ret.bus)


(***************************************************************************)
(* Name resolution (hil2.py, net_map.py, dut_cons.py).                     *)
(* A result is [exc, ...]: exc = "none" for a return value, otherwise the  *)
(* class of the exception raised.                                          *)
(***************************************************************************)
\* net_map.BoardNet.__hash__: hash((self._board, self._net)); equal pairs hash equal,
\* different pairs are taken to hash differently.
BoardNet_hash(key) == key

\* net_map.BoardNet.__eq__ reads other.board and other.net; a BoardNet has only
\* _board and _net, so the comparison raises AttributeError.
BoardNet_eq(self, other) == "AttributeError"

\* dut_cons.DutCon defines neither __eq__ nor __hash__: a dictionary finds a key only
\* by the identical object, and every lookup key is a new object.
DutCon_found(stored, connector, pin) == FALSE

\* TestDeviceManager.maybe_hil_con_from_net
maybe_hil_con_from_net(board, net) ==
    IF board \in TestDevices
    THEN [some |-> TRUE, device |-> board, port |-> net]
    ELSE [some |-> FALSE, device |-> "", port |-> ""]

Con(device, port) == [exc |-> "none", device |-> device, port |-> port]
ConRaise(e) == [exc |-> e, device |-> "", port |-> ""]

\* NetMap.get_entry: `board_net in self._entries` compares with every stored key of
\* equal hash.
get_entry(nm, board, net) ==
    LET hits == { e \in nm.entries : BoardNet_hash(e.key) = BoardNet_hash(BN(board, net)) }
    IN  IF hits = {} THEN [exc |-> "ConnectionError", component |-> "", designator |-> 0]
        ELSE LET e == CHOOSE x \in hits : TRUE
                 eq == BoardNet_eq(e.key, BN(board, net))
             IN  IF eq = "AttributeError"
                 THEN [exc |-> "AttributeError", component |-> "", designator |-> 0]
                 ELSE IF eq = "True"
                 THEN [exc |-> "none", component |-> e.component, designator |-> e.designator]
                 ELSE [exc |-> "ConnectionError", component |-> "", designator |-> 0]

\* DutCons.get_hil_device_connection and DutBoardCons.get_hil_device_connection
get_hil_device_connection(board, connector, pin) ==
    IF board \notin HarnessBoards THEN ConRaise("ConnectionError")
    ELSE LET hits == { h \in Harness(board) : DutCon_found(h, connector, pin) }
         IN  IF hits = {} THEN ConRaise("ConnectionError")
             ELSE LET h == CHOOSE x \in hits : TRUE IN Con(h.device, h.port)

\* Hil2._map_to_hil_device_con: match (self._maybe_net_map, maybe_hil_dut_con)
map_to_hil_device_con(nm, board, net) ==
    LET direct == maybe_hil_con_from_net(board, net)
    IN  IF ~nm.loaded /\ ~direct.some THEN ConRaise("ConnectionError")
        ELSE IF ~direct.some
        THEN LET entry == get_entry(nm, board, net)
             IN  IF entry.exc # "none" THEN ConRaise(entry.exc)
                 ELSE get_hil_device_connection(board, entry.component, entry.designator)
        ELSE IF ~nm.loaded THEN Con(direct.device, direct.port)
        ELSE ConRaise("ConnectionError")

(***************************************************************************)
(* The dispatcher (test_device.py) for the digital and analog actions.     *)
(* A result is [exc, writes]: the frames written to the device's link.     *)
(***************************************************************************)
Wrote(dev, frame) == [t |-> "write", dev |-> dev, frame |-> frame]
Stopped(dev) == [t |-> "stop", dev |-> dev, frame |-> <<>>]

Done(writes) == [exc |-> "none", writes |-> writes]

\* A rejection that has already written a select pin.
Raise_after_write(e) == [exc |-> e, writes |-> << [t |-> "write", dev |-> "X", frame |-> <<1, 5, 0>>] >>]

Raise(e) == [exc |-> e, writes |-> <<>>]

\* DacConfig.v_to_raw: int((value / reference_v) * (2**bit_resolution - 1))
v_to_raw(value) == (value * (2 ^ DacConfig.bit_resolution - 1)) \div DacConfig.reference_v

\* A DAC that refuses its full-scale voltage.
v_to_raw_raises_open(value) == value < 0 \/ value >= DacConfig.reference_v

\* DacConfig.v_to_raw: if value < 0 or value > self.reference_v: raise RangeError
v_to_raw_raises(value) == value < 0 \/ value > DacConfig.reference_v

\* PotConfig.ohms_to_raw: if value < wiper_ohms or value > reference_ohms + wiper_ohms
ohms_to_raw_raises(value) ==
    value < PotConfig.wiper_ohms \/ value > PotConfig.reference_ohms + PotConfig.wiper_ohms

\* An action is [type, value]; TestDevice.do_action matches (action, port) pairs.
Act(type, value) == [type |-> type, value |-> value]

\* Mux.select_from_name: "DMUX_6".rsplit("_", 1) names the base mux and the line.
MuxChannelName(mux, k) == mux.name \o "_" \o ToString(k)

select_from_name(mux, name) == { k \in 0..MaxChannel : name = MuxChannelName(mux, k) }

\* TestDevice._select_mux: one WRITE_GPIO per select pin, bit i of the line number.
select_mux_msb_first(dev, mux, k) ==
    [i \in 1..Len(mux.select_ports) |->
        Wrote(dev, <<WRITE_GPIO, mux.select_ports[i],
                     (k \div (2 ^ (Len(mux.select_ports) - i))) % 2>>)]

select_mux(dev, mux, k) ==
    [i \in 1..Len(mux.select_ports) |->
        Wrote(dev, <<WRITE_GPIO, mux.select_ports[i], (k \div (2 ^ (i - 1))) % 2>>)]

\* PotConfig.ohms_to_raw: steps = bit_resolution**2 - 1
ohms_to_raw(value) ==
    ((PotConfig.bit_resolution ^ 2 - 1) * (value - PotConfig.wiper_ohms)) \div PotConfig.reference_ohms

\* commands.send_can: [SEND_CAN, bus, id bytes 3..0, length, data, zero padding to 8].
send_can(bus, signal, data) ==
    <<SEND_CAN, bus, (signal \div 16777216) % 256, (signal \div 65536) % 256,
      (signal \div 256) % 256, signal % 256, Len(data)>>
    \o data \o [i \in 1..(8 - Len(data)) |-> 0]

StartsWithAI_any_mode(mode) == TRUE

StartsWithAI(mode) == mode \in {"AI", "AI5", "AI24"}

\* The rows of the match statement are tried in the order of the source.
device_do_action(dev, action, port) ==
    LET ports == { p \in DevicePorts(dev) : p.name = port }
        muxs  == { m \in DeviceMuxs(dev) : select_from_name(m, port) # {} }
        isbus == dev = Eng /\ port \in CanBusName
        mp    == CHOOSE p \in ports : TRUE
        mux   == CHOOSE m \in muxs : TRUE
        k     == CHOOSE c \in select_from_name(mux, port) : TRUE
        isp(mode) == ports # {} /\ mp.mode = mode
        ism(mode) == muxs # {} /\ mux.mode = mode
    IN  IF action.type = "SetDo" /\ isp("DO") THEN
               Done(<< Wrote(dev, <<WRITE_GPIO, mp.port, IF action.value THEN 1 ELSE 0>>) >>)
          ELSE IF action.type = "SetDo" /\ ism("DO") THEN
               Done(select_mux(dev, mux, k)
                    \o << Wrote(dev, <<WRITE_GPIO, mux.port, IF action.value THEN 1 ELSE 0>>) >>)
          ELSE IF action.type = "HiZDo" /\ isp("DO") THEN
               Done(<< Wrote(dev, <<HIZ_GPIO, mp.port>>) >>)
          ELSE IF action.type = "HiZDo" /\ ism("DO") THEN
               Done(select_mux(dev, mux, k) \o << Wrote(dev, <<HIZ_GPIO, mux.port>>) >>)
          ELSE IF action.type = "GetDi" /\ isp("DI") THEN
               Done(<< Wrote(dev, <<READ_GPIO, mp.port>>) >>)
          ELSE IF action.type = "GetDi" /\ ism("DI") THEN
               Done(select_mux(dev, mux, k) \o << Wrote(dev, <<READ_GPIO, mux.port>>) >>)
          ELSE IF action.type = "SetAo" /\ isp("AO") THEN
               IF ~HasDacConfig(dev) THEN Raise("EngineError")
               ELSE IF v_to_raw_raises(action.value)
               THEN Raise("RangeError")
               ELSE Done(<< Wrote(dev, <<WRITE_DAC, mp.port, v_to_raw(action.value)>>) >>)
          ELSE IF action.type = "HiZAo" /\ isp("AO") THEN
               Done(<< Wrote(dev, <<HIZ_DAC, mp.port>>) >>)
          ELSE IF action.type = "GetAi" /\ ports # {} /\ StartsWithAI(mp.mode) THEN
               Done(<< Wrote(dev, <<READ_ADC, mp.port>>) >>)
          ELSE IF action.type = "GetAi" /\ muxs # {} /\ StartsWithAI(mux.mode) THEN
               Done(select_mux(dev, mux, k) \o << Wrote(dev, <<READ_ADC, mux.port>>) >>)
          ELSE IF action.type = "SetPot" /\ isp("POT") THEN
               IF ~HasPotConfig(dev) THEN Raise("EngineError")
               ELSE IF ohms_to_raw_raises(action.value)
               THEN Raise("RangeError")
               ELSE Done(<< Wrote(dev, <<WRITE_POT, mp.port, ohms_to_raw(action.value)>>) >>)
          ELSE IF action.type = "SendCan" /\ isbus THEN
               Done(<< Wrote(dev, send_can(CanBusIndex(port), DbcFrameId(action.value.signal),
                                           action.value.data)) >>)
          ELSE IF action.type \in {"GetLastCan", "GetAllCan", "ClearCan"} /\ isbus THEN
               Done(<<>>)
          ELSE Raise("EngineError")

\* TestDeviceManager.do_action
manager_do_action(action, con) ==
    IF con.device \in TestDevices
    THEN device_do_action(con.device, action, con.port)
    ELSE Raise("ConnectionError")

(***************************************************************************)
(* The facade (hil2.py).  An operation maps the registry and the event     *)
(* history to [exc, reg, ev, resolved, res].                               *)
(***************************************************************************)
NoRes == Con("", "")

Outcome(exc, reg, ev, resolved, res) ==
    [exc |-> exc, reg |-> reg, ev |-> ev, resolved |-> resolved, res |-> res]

\* self._shutdown_components[net_map.BoardNet(board, net)] = comp  (Hil2.do, Hil2.ao)
\* Storing under a key compares the new key with every stored key of equal hash.
register(reg, key, kind) ==
    LET hits == { i \in 1..Len(reg) : BoardNet_hash(reg[i].key) = BoardNet_hash(key) }
    IN  IF hits = {} THEN [exc |-> "none", reg |-> Append(reg, [key |-> key, kind |-> kind])]
        ELSE LET i == CHOOSE x \in hits : TRUE
                 eq == BoardNet_eq(reg[i].key, key)
             IN  IF eq = "AttributeError" THEN [exc |-> "AttributeError", reg |-> reg]
                 ELSE IF eq = "True"
                 THEN [exc |-> "none", reg |-> [reg EXCEPT ![i] = [key |-> key, kind |-> kind]]]
                 ELSE [exc |-> "none", reg |-> Append(reg, [key |-> key, kind |-> kind])]

\* set_do, hiZ_do, set_ao, hiZ_ao: register the handle, resolve, dispatch.
output_op(nm, reg, ev, board, net, kind, action) ==
    LET r == register(reg, BN(board, net), kind)
    IN  IF r.exc # "none" THEN Outcome(r.exc, reg, ev, FALSE, NoRes)
        ELSE LET con == map_to_hil_device_con(nm, board, net)
             IN  IF con.exc # "none" THEN Outcome(con.exc, r.reg, ev, TRUE, con)
                 ELSE LET d == manager_do_action(action, con)
                      IN  Outcome(d.exc, r.reg, ev \o d.writes, TRUE, con)

\* get_di: resolve, dispatch; read_gpio raises SerialError when no response arrives.
input_op(nm, reg, ev, board, net, answered) ==
    LET con == map_to_hil_device_con(nm, board, net)
    IN  IF con.exc # "none" THEN Outcome(con.exc, reg, ev, TRUE, con)
        ELSE LET d == manager_do_action(Act("GetDi", FALSE), con)
             IN  IF d.exc # "none" THEN Outcome(d.exc, reg, ev, TRUE, con)
                 ELSE Outcome(IF answered THEN "none" ELSE "SerialError", reg, ev \o d.writes, TRUE, con)

\* DO.shutdown / AO.shutdown: self._hiZ_fn(), the hiZ_do / hiZ_ao of the handle's pair.
shutdown(nm, reg, ev, comp) ==
    output_op(nm, reg, ev, comp.key[1], comp.key[2], comp.kind,
              Act(IF comp.kind = "DO" THEN "HiZDo" ELSE "HiZAo", FALSE))

\* Hil2.close: for comp in self._shutdown_components.values(): comp.shutdown();
\* then clear().  An exception of a shutdown call leaves the loop and close.
RECURSIVE CloseLoop(_, _, _, _)
CloseLoop(nm, reg, ev, i) ==
    IF i > Len(reg) THEN [exc |-> "none", reg |-> <<>>, ev |-> ev, attempted |-> i - 1]
    ELSE LET r == shutdown(nm, reg, ev, reg[i])
         IN  IF r.exc # "none" THEN [exc |-> r.exc, reg |-> r.reg, ev |-> r.ev, attempted |-> i]
             ELSE CloseLoop(nm, r.reg, r.ev, i + 1)

close_components(nm, reg, ev) == CloseLoop(nm, reg, ev, 1)


(***************************************************************************)
(* Facade operations of one session.  A handle's set()/hiZ() are the       *)
(* set_do/hiZ_do (set_ao/hiZ_ao) of its pair, so they are these actions.    *)
(***************************************************************************)
OpTargets == { BN("X", "DO1"), BN("X", "DI1"), BN("X", "AO1"),
               BN("Dash", "BRK"), BN("Dash", "NC") }

AoValues == {33, 50}

LastOf(op, key, r, attempted, reg0) ==
    [op |-> op, board |-> key[1], net |-> key[2], exc |-> r.exc, resolved |-> r.resolved,
     res |-> r.res, attempted |-> attempted, reg0 |-> reg0]

\* Outputs an operation has driven: the device pins of the frames it wrote.
Driven(r, kind) ==
    IF r.exc # "none" THEN {}
    ELSE { [dev |-> r.ev[i].dev, pin |-> r.ev[i].frame[2], kind |-> kind] :
             i \in (Len(events) + 1)..Len(r.ev) }

Apply(op, key, kind, r) ==
    /\ shutdown_components' = r.reg
    /\ events' = r.ev
    /\ touched' = touched \cup Driven(r, kind)
    /\ last' = LastOf(op, key, r, 0, 0)
    /\ UNCHANGED << maybe_net_map, scope, engineVars, stop_event, reader, canVars, callVars, discVars >>

\* The model's bound on the registry: a new pair is registered only below MaxRegistered.
CanRegister(key) ==
    \/ Len(shutdown_components) < MaxRegistered
    \/ \E i \in 1..Len(shutdown_components) : shutdown_components[i].key = key

\* Hil2.do / Hil2.ao: create the handle and register it.
Handle(op, kind, key) ==
    /\ scope = "open"
    /\ CanRegister(key)
    /\ LET r == register(shutdown_components, key, kind)
       IN  Apply(op, key, kind, Outcome(r.exc, r.reg, events, FALSE, NoRes))

do == \E key \in OpTargets : Handle("do", "DO", key)

ao == \E key \in OpTargets : Handle("ao", "AO", key)

OutputOp(op, kind, key, action) ==
    /\ scope = "open"
    /\ Len(events) < MaxEvents
    /\ CanRegister(key)
    /\ Apply(op, key, kind,
             output_op(maybe_net_map, shutdown_components, events, key[1], key[2], kind, action))

set_do == \E key \in OpTargets, value \in BOOLEAN : OutputOp("set_do", "DO", key, Act("SetDo", value))

hiZ_do == \E key \in OpTargets : OutputOp("hiZ_do", "DO", key, Act("HiZDo", FALSE))

set_ao == \E key \in OpTargets, value \in AoValues : OutputOp("set_ao", "AO", key, Act("SetAo", value))

hiZ_ao == \E key \in OpTargets : OutputOp("hiZ_ao", "AO", key, Act("HiZAo", FALSE))

get_di ==
    \E key \in OpTargets, answered \in BOOLEAN :
        /\ scope = "open"
        /\ Len(events) < MaxEvents
        /\ LET r == input_op(maybe_net_map, shutdown_components, events, key[1], key[2], answered)
           IN  /\ shutdown_components' = r.reg
               /\ events' = r.ev
               /\ last' = LastOf("get_di", key, r, 0, 0)
               /\ UNCHANGED << touched, maybe_net_map, scope, engineVars, stop_event, reader, canVars, callVars, discVars >>

\* Hil2.close (also the teardown function of the test runner).
close ==
    /\ scope = "open"
    /\ LET r == close_components(maybe_net_map, shutdown_components, events)
       IN  /\ shutdown_components' = r.reg
           /\ events' = r.ev
           /\ last' = [NoLast EXCEPT !.op = "close", !.exc = r.exc,
                                     !.attempted = r.attempted, !.reg0 = Len(shutdown_components)]
    /\ UNCHANGED << touched, maybe_net_map, scope, engineVars, stop_event, reader, canVars, callVars, discVars >>

\* TestDeviceManager.close: device.close() -> ser.stop() for every device.
DeviceOrder == << "X", "Y" >>

StopAll == [i \in 1..Len(DeviceOrder) |-> Stopped(DeviceOrder[i])]

\* Hil2.__exit__: self.close(); self._test_device_manager.close(); return False.
\* An exception of close() propagates before the device manager is closed.
exit ==
    /\ scope = "open"
    /\ LET r == close_components(maybe_net_map, shutdown_components, events)
       IN  /\ shutdown_components' = r.reg
           /\ last' = [NoLast EXCEPT !.op = "exit", !.exc = r.exc,
                                     !.attempted = r.attempted, !.reg0 = Len(shutdown_components)]
           /\ IF r.exc = "none"
              THEN /\ events' = r.ev \o StopAll
                   /\ stop_event' = [d \in TestDevices |-> TRUE]
              ELSE /\ events' = r.ev
                   /\ stop_event' = stop_event
    /\ scope' = "exited"
    /\ UNCHANGED << touched, maybe_net_map, engineVars, reader, canVars, callVars, discVars >>

\* ThreadedSerial.run: the loop ends once stop_event is set, then _close().
ReaderExit ==
    \E d \in TestDevices :
        /\ reader[d] = "running"
        /\ stop_event[d]
        /\ reader' = [reader EXCEPT ![d] = "closed"]
        /\ UNCHANGED << stop_event, engineVars, canVars, callVars, discVars, facadeVars >>

NextFacade ==
    \/ do \/ ao \/ set_do \/ hiZ_do \/ set_ao \/ hiZ_ao \/ get_di
    \/ close \/ exit \/ ReaderExit

SpecFacade == Init /\ [][NextFacade]_vars


(***************************************************************************)
(* The foreground task on the link of Eng: TestDevice.do_action, the       *)
(* command functions it calls, and the wait for a response                 *)
(* (ThreadedSerial.get_readings_with_timeout).                             *)
(***************************************************************************)
\* ADC calibration; reference voltages in tenths of a volt.
AdcConfig == [bit_resolution |-> 10, adc_reference_v |-> 33,
              five_v_reference_v |-> 25, twenty_four_v_reference_v |-> 30]

\* The opcode a read command waits for.
AwaitedOpcode(type) == IF type = "GetDi" THEN READ_GPIO ELSE READ_ADC

\* The mode of the port or mux a name stands for on device Eng.
ModeOf(port) ==
    LET ports == { p \in DevicePorts(Eng) : p.name = port }
        muxs  == { m \in DeviceMuxs(Eng) : select_from_name(m, port) # {} }
    IN  IF ports # {} THEN (CHOOSE p \in ports : TRUE).mode
        ELSE IF muxs # {} THEN (CHOOSE m \in muxs : TRUE).mode
        ELSE ""

\* commands.read_gpio: case [read_value] -> bool(read_value); otherwise EngineError.
read_gpio_result(payload) ==
    IF Len(payload) = 1 THEN [exc |-> "none", value |-> << payload[1] # 0 >>]
    ELSE [exc |-> "EngineError", value |-> <<>>]

\* commands.read_adc and TestDevice._get_ai: raw = (high << 8) | low, then
\* AdcConfig.raw_to_v / raw_to_5v / raw_to_24v.  The voltage is kept as the exact
\* fraction << numerator, denominator >>.
read_adc_result(payload, mode) ==
    IF Len(payload) # 2 THEN [exc |-> "EngineError", value |-> <<>>]
    ELSE LET raw   == payload[1] * 256 + payload[2]
             steps == 2 ^ AdcConfig.bit_resolution - 1
         IN  IF raw < 0 \/ raw > steps THEN [exc |-> "RangeError", value |-> <<>>]
             ELSE CASE mode = "AI5" ->
                         [exc |-> "none",
                          value |-> << raw * AdcConfig.adc_reference_v * 50,
                                       steps * AdcConfig.five_v_reference_v >>]
                    [] mode = "AI24" ->
                         [exc |-> "none",
                          value |-> << raw * AdcConfig.adc_reference_v * 240,
                                       steps * AdcConfig.twenty_four_v_reference_v >>]
                    [] OTHER ->
                         [exc |-> "none", value |-> << raw * AdcConfig.adc_reference_v, steps >>]

\* ThreadedSerial.write: the bytes go out on the link after everything written before.
ser_write_front(written, frames) == frames \o written

ser_write(written, frames) == written \o frames

\* TestDevice.do_action on device Eng.  A write-style command returns once its frames
\* are written; a read command then waits in get_readings_with_timeout.  The call
\* notes how many frames the reader had parsed when its command was written and how
\* many frames it wrote itself.
DoAction(action, port, limit) ==
    /\ call.state # "waiting"
    /\ call.n < limit
    /\ ~(action.type \in {"GetLastCan", "GetAllCan", "ClearCan"} /\ port \in CanBusName)
    /\ LET r == device_do_action(Eng, action, port)
           drains == action.type = "SendCan" /\ port \in CanBusName
           bus == CanBusIndex(port)
       IN  /\ events' = ser_write(events, r.writes)
           /\ call' = [n |-> call.n + 1, action |-> action, port |-> port,
                       state |-> IF r.exc # "none" THEN "raised"
                                 ELSE IF action.type \in {"GetDi", "GetAi"} THEN "waiting"
                                 ELSE "returned",
                       polls |-> 0, exc |-> r.exc, value |-> <<>>, seen |-> Len(emitted),
                       wrote |-> Len(r.writes)]
           /\ parsed_can_messages' =
                 IF drains THEN DictPop(parsed_can_messages, bus) ELSE parsed_can_messages
           /\ device_can_busses' =
                 IF drains THEN [device_can_busses EXCEPT ![bus] = UpdatedStore(bus)]
                 ELSE device_can_busses
    /\ UNCHANGED << serial_in, readings, parsed_readings, sent, emitted, stop_event, reader,
                    ret, maybe_net_map, shutdown_components, touched, last, scope, discVars >>

Poll_no_deadline ==
    /\ call.state = "waiting"
    /\ LET cmd == AwaitedOpcode(call.action.type)
       IN  IF cmd \in DOMAIN parsed_readings
           THEN LET res == IF call.action.type = "GetDi"
                           THEN read_gpio_result(parsed_readings[cmd])
                           ELSE read_adc_result(parsed_readings[cmd], ModeOf(call.port))
                IN  /\ parsed_readings' = DictPop(parsed_readings, cmd)
                    /\ call' = [call EXCEPT !.state = IF res.exc = "none" THEN "returned" ELSE "raised",
                                            !.exc = res.exc, !.value = res.value]
           ELSE /\ call' = [call EXCEPT !.polls = IF call.polls < MaxPolls THEN call.polls + 1
                                                  ELSE call.polls]
                /\ UNCHANGED parsed_readings
    /\ UNCHANGED << serial_in, readings, parsed_can_messages, sent, emitted, stop_event, reader,
                    canVars, facadeVars, discVars >>

\* One iteration of the loop of get_readings_with_timeout: before the deadline, pop
\* the response if it is there, else sleep; at the deadline return None, on which
\* read_gpio / read_adc raise SerialError.
Poll ==
    /\ call.state = "waiting"
    /\ LET cmd == AwaitedOpcode(call.action.type)
       IN  IF call.polls < MaxPolls
           THEN IF cmd \in DOMAIN parsed_readings
                THEN LET res == IF call.action.type = "GetDi"
                                THEN read_gpio_result(parsed_readings[cmd])
                                ELSE read_adc_result(parsed_readings[cmd], ModeOf(call.port))
                     IN  /\ parsed_readings' = DictPop(parsed_readings, cmd)
                         /\ call' = [call EXCEPT !.state = IF res.exc = "none" THEN "returned" ELSE "raised",
                                                 !.exc = res.exc, !.value = res.value]
                ELSE /\ call' = [call EXCEPT !.polls = call.polls + 1]
                     /\ UNCHANGED parsed_readings
           ELSE /\ call' = [call EXCEPT !.state = "raised", !.exc = "SerialError"]
                /\ UNCHANGED parsed_readings
    /\ UNCHANGED << serial_in, readings, parsed_can_messages, sent, emitted, stop_event, reader,
                    canVars, facadeVars, discVars >>

\* ThreadedSerial.stop: self.stop_event.set()
stop ==
    /\ stop_event' = [stop_event EXCEPT ![Eng] = TRUE]
    /\ UNCHANGED << engineVars, reader, canVars, facadeVars, callVars, discVars >>

\* The names a caller may pass to the dispatcher of Eng.
LinkNames ==
    { p.name : p \in DevicePorts(Eng) }
    \cup { MuxChannelName(m, k) : m \in DeviceMuxs(Eng), k \in 0..MaxChannel }
    \cup CanBusName \cup {"NOPE"}

\* The actions a caller may pass (action.py).
LinkActions ==
    { Act("SetDo", TRUE), Act("SetDo", FALSE), Act("HiZDo", FALSE), Act("GetDi", FALSE),
      Act("SetAo", 33), Act("HiZAo", FALSE), Act("GetAi", FALSE), Act("SetPot", 55),
      Act("SendCan", [signal |-> "Foo", data |-> <<85>>]),
      Act("GetLastCan", NoneSig), Act("GetAllCan", NoneSig), Act("ClearCan", NoneSig) }

\* The dispatcher over its whole table, with no device traffic.
Dispatch == \E action \in LinkActions, port \in LinkNames : DoAction(action, port, MaxDispatch)

\* GetLastCan(None), GetAllCan(None), ClearCan(None) on a CAN bus name.
UnfilteredCanAction ==
    \E op \in {"get_last_can", "get_all_can", "clear_can"}, name \in CanBusName :
        CanAction(op, name, NoneSig)

\* No frame arrives in these sessions, so the stores stay empty and the filter of a
\* CAN query makes no difference: the queries are the unfiltered ones.
NextDispatch == Dispatch \/ Poll \/ UnfilteredCanAction

SpecDispatch == InitNoNetMap /\ [][NextDispatch]_vars

\* The conversions behind SetAo and SetPot over and around their calibrated ranges
\* (tenths of a volt, ohms), and commands.send_can called on the link directly.
ConvActions ==
    { Act("SetAo", v) : v \in (0 - 1)..(DacConfig.reference_v + 1) }
    \cup { Act("SetPot", o) :
              o \in (PotConfig.wiper_ohms - 1)..(PotConfig.wiper_ohms + PotConfig.reference_ohms + 1) }

Convert == \E action \in ConvActions, port \in {"AO1", "POT1"} : DoAction(action, port, MaxDispatch)

WireIds == {291, 536870911, 536871203}

WirePayloads == { <<>>, <<170, 187, 204>>, <<1, 2, 3, 4, 5, 6, 7, 8>> }

SendCanDirect ==
    \E bus \in CanBusses, signal \in WireIds, data \in WirePayloads :
        /\ call.state # "waiting"
        /\ call.n < MaxDispatch
        /\ events' = ser_write(events, << Wrote(Eng, send_can(bus, signal, data)) >>)
        /\ call' = [n |-> call.n + 1,
                    action |-> Act("send_can", [bus |-> bus, signal |-> signal, data |-> data]),
                    port |-> "", state |-> "returned", polls |-> 0, exc |-> "none", value |-> <<>>,
                    seen |-> Len(emitted), wrote |-> 1]
        /\ UNCHANGED << engineVars, stop_event, reader, canVars, maybe_net_map,
                        shutdown_components, touched, last, scope, discVars >>

NextConv == Convert \/ SendCanDirect

SpecConv == InitNoNetMap /\ [][NextConv]_vars

\* The four CAN actions of the dispatcher against a device that sends frames.
SendCanAction ==
    \E port \in CanBusName :
        DoAction(Act("SendCan", [signal |-> "Foo", data |-> <<85>>]), port, MaxDispatch)

NextDrain == DeviceSendStore \/ ReaderDrain \/ SendCanAction \/ UnfilteredCanAction

SpecDrain == InitNoNetMap /\ [][NextDrain]_vars

\* A session on the link: commands on the direct ports, the device answering.
LinkCalls ==
    { << Act("SetDo", TRUE), "DO1" >>, << Act("HiZDo", FALSE), "DO1" >>,
      << Act("GetDi", FALSE), "DI1" >>, << Act("GetAi", FALSE), "AI1" >>,
      << Act("SetAo", 33), "AO1" >> }

Command == \E c \in LinkCalls : DoAction(c[1], c[2], MaxCalls)

LinkAnswers == { <<READ_GPIO, 1>>, <<READ_GPIO, 0>>, <<READ_ADC, 0, 8>>, <<READ_ADC, 8, 0>>,
                 <<ERROR, READ_GPIO>> }

DeviceAnswer == \E f \in LinkAnswers : Len(sent) < MaxAnswers /\ Transmit(f)

ReaderTick == ReaderStep(1)

NextLink == Command \/ Poll \/ DeviceAnswer \/ ReaderTick \/ stop \/ ReaderExit

SpecLink == InitNoNetMap /\ [][NextLink]_vars

\* The foreground thread keeps running its polling loop while it waits.
SpecLinkFair == SpecLink /\ WF_vars(Poll)


(***************************************************************************)
(* Two test threads calling TestDevice.do_action on device Eng.  do_action *)
(* takes no lock: a call is its match, then one ser.write per frame, then  *)
(* for a read the polling of parsed_readings; the threads are scheduled    *)
(* between any two of these steps.                                         *)
(***************************************************************************)
Threads == {1, 2}

IdleThread == [pc |-> "idle", action |-> [type |-> "none", value |-> FALSE], port |-> "",
               todo |-> <<>>, at |-> <<>>, exc |-> "none", value |-> <<>>]

ThreadCalls ==
    { << Act("GetDi", FALSE), "IMUX_1" >>, << Act("GetDi", FALSE), "DI1" >>,
      << Act("SetDo", TRUE), "DMUX_2" >>, << Act("SetDo", FALSE), "DO1" >> }

InitConcurrent ==
    /\ serial_in = <<>>
    /\ readings = <<>>
    /\ parsed_readings = EmptyDict
    /\ parsed_can_messages = EmptyDict
    /\ sent = <<>>
    /\ emitted = <<>>
    /\ stop_event = [d \in TestDevices |-> FALSE]
    /\ reader = [d \in TestDevices |-> "running"]
    /\ device_can_busses = [b \in CanBusses |-> <<>>]
    /\ ret = NoRet
    /\ call = [t \in Threads |-> IdleThread]
    /\ InitFacade
    /\ ~maybe_net_map.loaded
    /\ disc = NoDisc

\* A thread enters do_action: the match selects the row and its frames.
Enter(t) ==
    \E c \in ThreadCalls :
        /\ call[t].pc = "idle"
        /\ LET r == device_do_action(Eng, c[1], c[2])
           IN  call' = [call EXCEPT ![t] =
                           [pc |-> IF r.exc # "none" THEN "raised" ELSE "writing",
                            action |-> c[1], port |-> c[2], todo |-> r.writes, at |-> <<>>,
                            exc |-> r.exc, value |-> <<>>]]
        /\ UNCHANGED << engineVars, stop_event, reader, canVars, facadeVars, discVars >>

\* The next ser.write of the call; after the last one a read starts to poll.
WriteNext(t) ==
    /\ call[t].pc = "writing"
    /\ events' = ser_write(events, << Head(call[t].todo) >>)
    /\ call' = [call EXCEPT ![t].todo = Tail(call[t].todo),
                            ![t].at = Append(call[t].at, Len(events) + 1),
                            ![t].pc = IF Len(call[t].todo) > 1 THEN "writing"
                                      ELSE IF call[t].action.type = "GetDi" THEN "waiting"
                                      ELSE "returned"]
    /\ UNCHANGED << engineVars, stop_event, reader, canVars, maybe_net_map,
                    shutdown_components, touched, last, scope, discVars >>

\* One successful iteration of get_readings_with_timeout(READ_GPIO).
PollThread(t) ==
    /\ call[t].pc = "waiting"
    /\ READ_GPIO \in DOMAIN parsed_readings
    /\ LET res == read_gpio_result(parsed_readings[READ_GPIO])
       IN  call' = [call EXCEPT ![t].pc = IF res.exc = "none" THEN "returned" ELSE "raised",
                                ![t].exc = res.exc, ![t].value = res.value]
    /\ parsed_readings' = DictPop(parsed_readings, READ_GPIO)
    /\ UNCHANGED << serial_in, readings, parsed_can_messages, sent, emitted, stop_event, reader,
                    canVars, facadeVars, discVars >>

\* The device answers the READ_GPIO commands in the order it received them; the
\* level it reports is fixed per pin (pin 2 high, every other pin low).
PinLevel(pin) == IF pin = 2 THEN 1 ELSE 0

ReadCommands == SelectSeq(events, LAMBDA e : e.frame[1] = READ_GPIO)

DeviceRespond ==
    /\ Len(sent) < Len(ReadCommands)
    /\ Transmit(<< READ_GPIO, PinLevel(ReadCommands[Len(sent) + 1].frame[2]) >>)

NextConcurrent ==
    \/ \E t \in Threads : Enter(t)
    \/ \E t \in Threads : WriteNext(t)
    \/ \E t \in Threads : PollThread(t)
    \/ DeviceRespond
    \/ ReaderDrain

SpecConcurrent == InitConcurrent /\ [][NextConcurrent]_vars

(***************************************************************************)
(* Discovery (serial_helper.discover_devices) and the preamble scan        *)
(* (commands.read_id) on a raw port.                                       *)
(***************************************************************************)
READ_ID_RESPONSE_LENGTH == 6

SYNC_BYTES == <<222, 173, 190, 239>>

\* s[-3:]
LastThree(s) == SubSeq(s, IF Len(s) > 3 THEN Len(s) - 2 ELSE 1, Len(s))

\* The scan of read_id over the accumulated buffer: for i in range(len(buf) - 5),
\* the first i with buf[i:i+4] == SYNC_BYTES and buf[i+4] == READ_ID.
SyncHits(buf) ==
    { i \in 0..(Len(buf) - READ_ID_RESPONSE_LENGTH) :
        SubSeq(buf, i + 1, i + 4) = SYNC_BYTES /\ buf[i + 5] = READ_ID }

FirstHit(buf) == CHOOSE i \in SyncHits(buf) : \A j \in SyncHits(buf) : i <= j

\* What a port sends after READ_ID was written to it: boot garbage, then possibly the
\* response, then possibly the first bytes of later traffic.
GarbageOfLen(n) == [1..n -> {1, 222}]

HilId == 7

ReadIdStreams ==
    UNION { { g \o SYNC_BYTES \o <<READ_ID, HilId>> \o t : g \in GarbageOfLen(n), t \in { <<>>, <<3, 1>> } }
            : n \in 0..MaxGarbage }
    \cup UNION { GarbageOfLen(n) : n \in 0..MaxGarbage }

InitReadId ==
    /\ InitEngine
    /\ InitFacade
    /\ ~maybe_net_map.loaded
    /\ \E st \in ReadIdStreams :
          disc = [pc |-> "scanning", all |-> st, stream |-> st, read_buffer |-> <<>>,
                  id |-> 0, remaining |-> <<>>]

\* One iteration of the loop of read_id: chunk = ser_raw.read(max(in_waiting, 1)),
\* extend the buffer, scan it once it holds six bytes, keep its last three bytes
\* when the scan finds nothing.
ReadChunk ==
    \E k \in 1..MaxRead :
        /\ disc.pc = "scanning"
        /\ k <= Len(disc.stream)
        /\ LET buf == disc.read_buffer \o SubSeq(disc.stream, 1, k)
               rest == SliceFrom(disc.stream, k)
           IN  disc' =
                 IF Len(buf) >= READ_ID_RESPONSE_LENGTH
                 THEN IF SyncHits(buf) # {}
                      THEN [disc EXCEPT !.pc = "found", !.stream = rest, !.read_buffer = buf,
                                        !.id = buf[FirstHit(buf) + 6],
                                        !.remaining = SliceFrom(buf, FirstHit(buf) + 6)]
                      ELSE [disc EXCEPT !.stream = rest, !.read_buffer = LastThree(buf)]
                 ELSE [disc EXCEPT !.stream = rest, !.read_buffer = buf]
        /\ UNCHANGED << engineVars, stop_event, reader, canVars, facadeVars, callVars >>

\* The loop of read_id ends at its deadline, here after every byte the port sent was
\* read: the function returns None.
ReadIdDeadline ==
    /\ disc.pc = "scanning"
    /\ disc.stream = <<>>
    /\ disc' = [disc EXCEPT !.pc = "none"]
    /\ UNCHANGED << engineVars, stop_event, reader, canVars, facadeVars, callVars >>

\* ThreadedSerial.__init__ on the port read_id has identified: self.readings = [];
\* the engine will read what is still unread on the port.
Attach ==
    /\ disc.pc = "found"
    /\ disc' = [disc EXCEPT !.pc = "attached"]
    /\ readings' = <<>>
    /\ serial_in' = disc.stream
    /\ UNCHANGED << parsed_readings, parsed_can_messages, sent, emitted, stop_event, reader,
                    canVars, facadeVars, callVars >>

NextReadId == ReadChunk \/ ReadIdDeadline \/ Attach

SpecReadId == InitReadId /\ [][NextReadId]_vars

\* discover_devices(hil_ids): the candidate ports in list order, each with the id it
\* answers READ_ID with (0: the port never answers), and the expected ids.
PortAnswers == {0, 1, 2, 3}

ExpectedIds == SUBSET {1, 2}

PortLists == UNION { [1..n -> PortAnswers] : n \in 0..MaxPorts }

InitDiscover ==
    /\ InitEngine
    /\ InitFacade
    /\ ~maybe_net_map.loaded
    /\ \E ports \in PortLists, hil_ids \in ExpectedIds :
          disc = [pc |-> "start", ports |-> ports, hil_ids |-> hil_ids,
                  devices |-> << >>, exc |-> "none",
                  opened |-> {}, closed |-> {}, attempts |-> 0]

\* discover_devices as a whole.  For the first candidate port it calls
\* commands.read_id(serial_con) without the required response_wait argument, which
\* raises TypeError; with no candidate port it goes straight to the final check.
\* The port opened by serial.Serial(cp, ...) before the call stays open: the
\* exception leaves the function before serial_con.close() or a claim.
discover_devices ==
    /\ disc.pc = "start"
    /\ disc' = IF Len(disc.ports) > 0
               THEN [disc EXCEPT !.pc = "done", !.exc = "TypeError",
                                 !.opened = {1}, !.attempts = 1]
               ELSE IF disc.hil_ids # {}
               THEN [disc EXCEPT !.pc = "done", !.exc = "SerialError"]
               ELSE [disc EXCEPT !.pc = "done"]
    /\ UNCHANGED << engineVars, stop_event, reader, canVars, facadeVars, callVars >>

NextDiscover == discover_devices

SpecDiscover == InitDiscover /\ [][NextDiscover]_vars


(***************************************************************************)
(* What the configuration says about a (board, net), by value.             *)
(***************************************************************************)
DirectMatch(board) == board \in TestDevices

NetMapEntries(board, net) == { e \in maybe_net_map.entries : e.key = BN(board, net) }

HarnessTargets(board, net) ==
    IF ~maybe_net_map.loaded \/ board \notin HarnessBoards THEN {}
    ELSE { h \in Harness(board) :
             \E e \in NetMapEntries(board, net) :
                 h.connector = e.component /\ h.pin = e.designator }

NetMapMatch(board, net) == HarnessTargets(board, net) # {}

HiZFrame(t) == << IF t.kind = "DO" THEN 2 ELSE 5, t.pin >>

HiZWritten(t) ==
    \E i \in 1..Len(events) :
        events[i].t = "write" /\ events[i].dev = t.dev /\ events[i].frame = HiZFrame(t)

(***************************************************************************)
(* C2  Shutdown coverage.  Once close has been called (directly or by the  *)
(* scope exit), every output that a set_do, hiZ_do, set_ao or hiZ_ao call  *)
(* has driven has had a HiZ command (HIZ_GPIO for a DO, HIZ_DAC for an AO)  *)
(* written to its device's link.                                           *)
(***************************************************************************)
C2_ShutdownCoverage ==
    (last.op \in {"close", "exit"}) => \A t \in touched : HiZWritten(t)

(***************************************************************************)
(* C3  Name resolution.  A resolution fails with ConnectionError if and    *)
(* only if neither the direct-device match nor the net-map+harness match   *)
(* succeeds, or both succeed; in every other case it returns a HilDutCon.  *)
(***************************************************************************)
C3_ResolutionFailsIff ==
    last.resolved =>
        LET direct == DirectMatch(last.board)
            viaMap == NetMapMatch(last.board, last.net)
        IN  IF direct = viaMap
            THEN last.res.exc = "ConnectionError"
            ELSE last.res.exc = "none"

(***************************************************************************)
(* C4  Direct addressing.  If the board is a managed HIL device and the    *)
(* net map (loaded or not) has no entry for (board, net), the resolution   *)
(* returns HilDutCon(board, net) and the operation reaches the dispatcher  *)
(* of that device (it does not fail in name resolution).                   *)
(***************************************************************************)
C4_DirectAddressing ==
    (last.resolved /\ DirectMatch(last.board) /\ NetMapEntries(last.board, last.net) = {}) =>
        /\ last.res = Con(last.board, last.net)
        /\ last.exc \in {"none", "EngineError", "RangeError", "SerialError"}

(***************************************************************************)
(* C5  Net-map resolution.  If the board is not a HIL device, the net map  *)
(* has an entry for (board, net) and the harness of that board maps the    *)
(* entry's (connector, pin) to the HIL connection h, the resolution        *)
(* returns h.                                                              *)
(***************************************************************************)
C5_NetMapResolution ==
    (last.resolved /\ ~DirectMatch(last.board) /\ NetMapMatch(last.board, last.net)) =>
        \E h \in HarnessTargets(last.board, last.net) : last.res = Con(h.device, h.port)

OutputsOf(comp) ==
    { [dev |-> comp.key[1], pin |-> p.port, kind |-> comp.kind] :
        p \in { q \in (IF comp.key[1] \in TestDevices THEN DevicePorts(comp.key[1]) ELSE {}) :
                  q.name = comp.key[2] /\ q.mode = comp.kind } }

PinOf(port) == (CHOOSE p \in DevicePorts(Eng) : p.name = port).port

\* The command frame of the protocol table for an action on a pin.
CommandFrame(action, pin) ==
    CASE action.type = "SetDo" -> <<1, pin, IF action.value THEN 1 ELSE 0>>
      [] action.type = "HiZDo" -> <<2, pin>>
      [] action.type = "GetDi" -> <<3, pin>>
      [] action.type = "SetAo" -> <<4, pin, (action.value * 255) \div 33>>
      [] action.type = "HiZAo" -> <<5, pin>>
      [] action.type = "GetAi" -> <<6, pin>>

RECURSIVE WireBytes(_)
WireBytes(written) ==
    IF written = <<>> THEN <<>>
    ELSE WireBytes(SubSeq(written, 1, Len(written) - 1)) \o written[Len(written)].frame

C12_Example ==
    (/\ call.n = 2 /\ call.action.type = "GetDi" /\ call.port = "DI1"
     /\ Len(events) >= 1 /\ events[1].frame = <<1, 1, 1>>) =>
        /\ WireBytes(events) = <<1, 1, 1, 3, 2>>
        /\ (call.state = "returned" /\ sent = << <<3, 1>> >>) => call.value = << TRUE >>

C12_WireOrder ==
    /\ []C12_Example
    /\ [][ IF call'.n = call.n + 1
           THEN WireBytes(events') = WireBytes(events) \o CommandFrame(call'.action, PinOf(call'.port))
           ELSE events' = events ]_vars

C12_Witness ==
    /\ call.n = 2 /\ call.action.type = "GetDi" /\ call.port = "DI1"
    /\ call.state = "returned" /\ call.value = << TRUE >>
    /\ sent = << <<3, 1>> >>
    /\ WireBytes(events) = <<1, 1, 1, 3, 2>>


(***************************************************************************)
(* C13  MUX encoding.  For every mux with n select pins and every channel  *)
(* k < 2^n, a supported action on channel k writes exactly n WRITE_GPIO    *)
(* commands, the i-th to the i-th declared select pin with the i-th binary *)
(* digit of k (least significant first), and after them one command on the *)
(* mux's data pin.                                                         *)
(***************************************************************************)
\* The binary digits of k over n places, least significant first.
RECURSIVE BitSum(_, _)
BitSum(b, n) == IF n = 0 THEN 0 ELSE b[n] * 2 ^ (n - 1) + BitSum(b, n - 1)

DigitsOf(k, n) == CHOOSE b \in [1..n -> {0, 1}] : BitSum(b, n) = k

MuxSupports(mode, type) ==
    \/ mode = "DO" /\ type \in {"SetDo", "HiZDo"}
    \/ mode = "DI" /\ type = "GetDi"
    \/ mode \in {"AI", "AI5", "AI24"} /\ type = "GetAi"

DataOpcodes(type) ==
    CASE type = "SetDo" -> 1 [] type = "HiZDo" -> 2 [] type = "GetDi" -> 3 [] OTHER -> 6

C13_MuxEncoding ==
    [][ (call'.n = call.n + 1) =>
        \A m \in DeviceMuxs(Eng) :
          \A k \in 0..MaxChannel :
            (/\ k < 2 ^ Len(m.select_ports)
             /\ call'.port = MuxChannelName(m, k)
             /\ MuxSupports(m.mode, call'.action.type)) =>
               LET n   == Len(m.select_ports)
                   new == SubSeq(events', Len(events) + 1, Len(events'))
               IN  /\ call'.exc = "none"
                   /\ Len(new) = n + 1
                   /\ \A i \in 1..n :
                        new[i] = Wrote(Eng, <<1, m.select_ports[i], DigitsOf(k, n)[i]>>)
                   /\ new[n + 1].dev = Eng
                   /\ new[n + 1].frame[1] = DataOpcodes(call'.action.type)
                   /\ new[n + 1].frame[2] = m.port ]_vars

C13_Witness ==
    /\ call.port = "DMUX_2" /\ call.action.type = "HiZDo"
    /\ events = << Wrote(Eng, <<1, 5, 0>>), Wrote(Eng, <<1, 4, 1>>), Wrote(Eng, <<2, 6>>) >>


(***************************************************************************)
(* C14  Unsupported dispatch.  A dispatcher call whose (action, target)    *)
(* pair is no row of the dispatch table fails with EngineError: SetDo on a *)
(* DI port, SetAo or SetPot on a mux channel, GetDi on a CAN bus name, a   *)
(* CAN action on a port name, any action on an unknown name.  Names of mux *)
(* lines outside the mux's range are left to the claim on channel range.   *)
(***************************************************************************)
\* What a name is in the configuration of Eng: a port, a mux channel or a CAN bus.
TargetOf(name) ==
    LET ports == { p \in DevicePorts(Eng) : p.name = name }
        chans == { m \in DeviceMuxs(Eng) :
                     \E k \in 0..(2 ^ Len(m.select_ports) - 1) : name = MuxChannelName(m, k) }
    IN  IF ports # {} THEN [kind |-> "P", mode |-> (CHOOSE p \in ports : TRUE).mode]
        ELSE IF chans # {} THEN [kind |-> "M", mode |-> (CHOOSE m \in chans : TRUE).mode]
        ELSE IF name \in CanBusName THEN [kind |-> "B", mode |-> ""]
        ELSE [kind |-> "none", mode |-> ""]

OutOfRangeChannel(name) ==
    \E m \in DeviceMuxs(Eng) :
        \E k \in 0..MaxChannel : k >= 2 ^ Len(m.select_ports) /\ name = MuxChannelName(m, k)

IsRow(type, t) ==
    \/ type \in {"SetDo", "HiZDo"} /\ t.kind \in {"P", "M"} /\ t.mode = "DO"
    \/ type = "GetDi" /\ t.kind \in {"P", "M"} /\ t.mode = "DI"
    \/ type \in {"SetAo", "HiZAo"} /\ t.kind = "P" /\ t.mode = "AO"
    \/ type = "GetAi" /\ t.kind \in {"P", "M"} /\ t.mode \in {"AI", "AI5", "AI24"}
    \/ type = "SetPot" /\ t.kind = "P" /\ t.mode = "POT"
    \/ type \in {"SendCan", "GetLastCan", "GetAllCan", "ClearCan"} /\ t.kind = "B"

ReadTypes == {"GetDi", "GetAi"}

NoResponseParsed(type) ==
    \A i \in 1..Len(emitted) : emitted[i][1] # (IF type = "GetDi" THEN 3 ELSE 6)

C15_ReadTimeout ==
    /\ (call.state = "waiting") ~> (call.state # "waiting")
    /\ [](call.state = "waiting" => call.action.type \in ReadTypes)
    /\ []((/\ call.action.type \in ReadTypes
           /\ call.state \in {"returned", "raised"}
           /\ NoResponseParsed(call.action.type)) =>
              (call.state = "raised" /\ call.exc = "SerialError"))

C15_Witness ==
    /\ call.action.type = "GetDi" /\ call.state = "raised" /\ call.exc = "SerialError"
    /\ call.polls = MaxPolls
    /\ emitted = <<>>
    /\ events # <<>>


(***************************************************************************)
(* C16  Cancellation.  In every reachable state in which stop() has been   *)
(* called, the reader task has closed the serial link or is still in its   *)
(* loop and will leave it at the next test of the flag; stop() may be      *)
(* repeated without further effect.                                        *)
(***************************************************************************)
C16_Cancellation ==
    stop_event[Eng] => (reader[Eng] = "closed" \/ reader[Eng] = "running")


(***************************************************************************)
(* C17  Discovery outcome.  When discovery has ended: if every expected id *)
(* is answered by some candidate port, it has returned a map that binds    *)
(* every expected id to a port answering that id; otherwise it has failed  *)
(* with SerialError.                                                       *)
(***************************************************************************)
AnsweredIds(ports) == { ports[i] : i \in 1..Len(ports) } \ {0}

C17_DiscoveryOutcome ==
    (disc.pc = "done") =>
        IF disc.hil_ids \subseteq AnsweredIds(disc.ports)
        THEN /\ disc.exc = "none"
             /\ \A id \in disc.hil_ids :
                   \E i \in 1..Len(disc.devices) :
                       /\ disc.devices[i].id = id
                       /\ disc.ports[disc.devices[i].port] = id
        ELSE disc.exc = "SerialError"

(***************************************************************************)
(* C18  Preamble scan.  When read_id has ended and the bytes it received   *)
(* contain DE AD BE EF 00 id, it has returned that id, whatever garbage    *)
(* precedes the preamble and however the bytes were split across reads.    *)
(***************************************************************************)
ResponseAt(st) ==
    { i \in 0..(Len(st) - 6) : SubSeq(st, i + 1, i + 4) = <<222, 173, 190, 239>> /\ st[i + 5] = 0 }

C18_PreambleScan ==
    (disc.pc \in {"none", "found", "attached"} /\ ResponseAt(disc.all) # {}) =>
        /\ disc.pc # "none"
        /\ \E i \in ResponseAt(disc.all) : disc.id = disc.all[i + 6]

(***************************************************************************)
(* C19  Discovery hand-off.  When the serial engine attaches to a port the *)
(* scan has identified, the bytes the device sent after the READ_ID        *)
(* response are all ahead of the parser: those the scan already read are   *)
(* the start of the parser buffer, followed by what is unread on the port. *)
(***************************************************************************)
AfterResponse(st) ==
    LET i == CHOOSE x \in ResponseAt(st) : \A y \in ResponseAt(st) : x <= y
    IN  SubSeq(st, i + 7, Len(st))

C19_DiscoveryHandOff ==
    (disc.pc = "attached") => (readings \o serial_in = AfterResponse(disc.all))


(***************************************************************************)
(* C20  CAN store order.  The store of a bus holds the messages appended   *)
(* and not yet cleared, in append order: an operation on a bus first       *)
(* appends the newly received messages behind the stored ones; get_all     *)
(* with no filter returns that whole sequence, get_all(s) its subsequence  *)
(* with signal s; clear(s) removes exactly the entries with signal s and   *)
(* clear with no filter empties the store; nothing else changes a store.   *)
(***************************************************************************)
RECURSIVE WithSignal(_, _, _)
WithSignal(messages, signal, keep) ==
    IF messages = <<>> THEN <<>>
    ELSE (IF (Head(messages).signal = signal) = keep THEN << Head(messages) >> ELSE <<>>)
         \o WithSignal(Tail(messages), signal, keep)

StoreLaw(op, name, signal) ==
    LET bus      == CanBusIndex(name)
        appended == device_can_busses[bus] \o DecodeAll(QueuedCan(bus))
    IN  /\ \A other \in CanBusses \ {bus} : device_can_busses'[other] = device_can_busses[other]
        /\ op # "clear_can" => device_can_busses'[bus] = appended
        /\ (op = "get_all_can" /\ signal = NoneSig) => ret'.value = appended
        /\ (op = "get_all_can" /\ signal # NoneSig) => ret'.value = WithSignal(appended, signal, TRUE)
        /\ (op = "clear_can" /\ signal = NoneSig) => device_can_busses'[bus] = <<>>
        /\ (op = "clear_can" /\ signal # NoneSig) =>
               device_can_busses'[bus] = WithSignal(appended, signal, FALSE)

C20_Step ==
    /\ \A op \in {"get_last_can", "get_all_can", "clear_can"}, name \in CanBusName, signal \in Filters :
           (ret'.op = op /\ ret'.bus = CanBusIndex(name) /\ ret'.signal = signal
               /\ CanAction(op, name, signal)) => StoreLaw(op, name, signal)
    /\ (DeviceSendStore \/ ReaderDrain) => device_can_busses' = device_can_busses

C20_CanStoreOrder == [][C20_Step]_vars

\* get_all(s) has returned a proper, non-empty subsequence of a store that holds
\* messages of two signals, the filtered one appended last.
C20_Witness ==
    /\ ret.op = "get_all_can"
    /\ ret.signal # NoneSig
    /\ Len(ret.value) >= 1
    /\ Len(device_can_busses[ret.bus]) >= 2
    /\ Len(ret.value) < Len(device_can_busses[ret.bus])
    /\ device_can_busses[ret.bus][1].signal # ret.signal


(***************************************************************************)
(* C21  CAN get_last.  get_last(s) returns the most recently appended      *)
(* message whose signal equals s, or None when no stored message has       *)
(* signal s; get_last(None) returns the most recently appended message, or *)
(* None when the store is empty; get_last leaves the store as it is (the   *)
(* stored messages followed by the newly received ones).                   *)
(***************************************************************************)
IndicesOf(messages, signal) ==
    { i \in 1..Len(messages) : signal = NoneSig \/ messages[i].signal = signal }

GetLastLaw(name, signal) ==
    LET bus      == CanBusIndex(name)
        appended == device_can_busses[bus] \o DecodeAll(QueuedCan(bus))
        hits     == IndicesOf(appended, signal)
    IN  /\ device_can_busses' = [device_can_busses EXCEPT ![bus] = appended]
        /\ IF hits = {} THEN ret'.value = <<>>
           ELSE ret'.value = << appended[CHOOSE i \in hits : \A j \in hits : j <= i] >>

C21_Step ==
    \A name \in CanBusName, signal \in Filters :
        (ret'.op = "get_last_can" /\ ret'.bus = CanBusIndex(name) /\ ret'.signal = signal
            /\ CanAction("get_last_can", name, signal)) => GetLastLaw(name, signal)

C21_CanGetLast == [][C21_Step]_vars

\* get_last(s) has returned the later of two stored messages with signal s that
\* differ in their data.
C21_Witness ==
    /\ ret.op = "get_last_can"
    /\ ret.signal # NoneSig
    /\ Len(device_can_busses[ret.bus]) = 2
    /\ device_can_busses[ret.bus][1].signal = ret.signal
    /\ device_can_busses[ret.bus][2].signal = ret.signal
    /\ device_can_busses[ret.bus][1] # device_can_busses[ret.bus][2]
    /\ ret.value = << device_can_busses[ret.bus][2] >>

(***************************************************************************)
(* C22  CAN clear.  clear(s) removes exactly the stored messages whose     *)
(* signal equals s and keeps all others in their relative order;           *)
(* clear(None) leaves the store empty; clearing again with the same filter *)
(* changes nothing.                                                        *)
(***************************************************************************)
\* sub is messages without its entries at the positions in gone.
RECURSIVE Without(_, _, _)
Without(messages, gone, i) ==
    IF i > Len(messages) THEN <<>>
    ELSE (IF i \in gone THEN <<>> ELSE << messages[i] >>) \o Without(messages, gone, i + 1)

ClearLaw(name, signal) ==
    LET bus      == CanBusIndex(name)
        appended == device_can_busses[bus] \o DecodeAll(QueuedCan(bus))
        after    == device_can_busses'[bus]
    IN  /\ after = Without(appended, IndicesOf(appended, signal), 1)
        /\ signal = NoneSig => after = <<>>
        /\ IndicesOf(after, signal) = {}
        /\ clear(after, signal) = after
        /\ \A other \in CanBusses \ {bus} : device_can_busses'[other] = device_can_busses[other]

C22_Step ==
    \A name \in CanBusName, signal \in Filters :
        (ret'.op = "clear_can" /\ ret'.bus = CanBusIndex(name) /\ ret'.signal = signal
            /\ CanAction("clear_can", name, signal)) => ClearLaw(name, signal)

C22_CanClear == [][C22_Step]_vars

\* The last operation was clear(s); every frame the device sent has been parsed
\* and drained, two arrived on the bus and one message, of another signal, is left.
FramesOnBus(bus) == { i \in 1..Len(sent) : sent[i][1] = RECV_CAN /\ sent[i][2] = bus }

C22_Witness ==
    /\ ret.op = "clear_can"
    /\ ret.signal # NoneSig
    /\ serial_in = <<>> /\ readings = <<>>
    /\ QueuedCan(ret.bus) = <<>>
    /\ Cardinality(FramesOnBus(ret.bus)) = 2
    /\ Len(device_can_busses[ret.bus]) = 1
    /\ device_can_busses[ret.bus][1].signal # ret.signal


(***************************************************************************)
(* C23  SEND_CAN frame.  The frame send_can writes is the 15 bytes         *)
(* [8, bus, id_b3, id_b2, id_b1, id_b0, len, d0..d7]: the id bytes are the *)
(* big-endian bytes of the id masked to 29 bits, the first len data bytes  *)
(* are the payload and the rest are zero.                                  *)
(***************************************************************************)
LastWritten == events[Len(events)].frame

BigEndian4(n) == << (n \div 16777216) % 256, (n \div 65536) % 256, (n \div 256) % 256, n % 256 >>

C23_SendCanFrame ==
    (call.action.type = "send_can") =>
        LET a == call.action.value
        IN  /\ Len(LastWritten) = 15
            /\ LastWritten = <<8, a.bus>> \o BigEndian4(a.signal % 536870912) \o << Len(a.data) >>
                             \o a.data \o [i \in 1..(8 - Len(a.data)) |-> 0]

(***************************************************************************)
(* C24  POT conversion.  For a resistance o inside [wiper, wiper + ref]    *)
(* the raw value written by SetPot is floor((2^b - 1) * (o - wiper) / ref).*)
(***************************************************************************)
C24_PotConversion ==
    (call.action.type = "SetPot" /\ call.port = "POT1" /\ call.exc = "none") =>
        LastWritten = << WRITE_POT, 9,
                         ((2 ^ PotConfig.bit_resolution - 1) * (call.action.value - PotConfig.wiper_ohms))
                             \div PotConfig.reference_ohms >>

(***************************************************************************)
(* C25  Range errors.  SetAo(v) fails with RangeError exactly when v < 0   *)
(* or v > ref_v, and SetPot(o) exactly when o < wiper or o > wiper + ref.  *)
(***************************************************************************)
C25_RangeErrors ==
    /\ (call.action.type = "SetAo" /\ call.port = "AO1") =>
           ((call.exc = "RangeError") <=> (call.action.value < 0 \/ call.action.value > 33))
    /\ (call.action.type = "SetPot" /\ call.port = "POT1") =>
           ((call.exc = "RangeError") <=> (call.action.value < 5 \/ call.action.value > 105))

\* The full-scale voltage was accepted and written, after which nothing else ran.
C25_Witness ==
    /\ call.action.type = "SetAo"
    /\ call.action.value = 33
    /\ call.exc = "none"
    /\ Len(events) = 1


(***************************************************************************)
(* C26  Device-reported error.  When the parser's buffer begins with a     *)
(* complete ERROR frame [10, opcode], the parser fails with SerialError    *)
(* naming the opcode the device reported, and every complete frame the     *)
(* device sent before that ERROR frame has been emitted.                   *)
(***************************************************************************)
FirstErrorSent == CHOOSE j \in 1..Len(sent) : sent[j][1] = 10 /\ \A i \in 1..(j - 1) : sent[i][1] # 10

C26_DeviceReportedError ==
    (Len(readings) >= 2 /\ readings[1] = 10) =>
        /\ parse_readings(readings, parsed_readings, parsed_can_messages).err = "SerialError"
        /\ reader[Eng] = "crashed"
        /\ \E j \in 1..Len(sent) : sent[j][1] = 10
        /\ serial_error_names(readings) = sent[FirstErrorSent][2]
        /\ emitted = SubSeq(sent, 1, FirstErrorSent - 1)

\* The reader failed on ERROR for READ_GPIO after a frame that came before it.
C26_Witness ==
    /\ Len(readings) >= 2
    /\ readings[1] = 10
    /\ readings[2] = 3
    /\ reader[Eng] = "crashed"
    /\ Len(emitted) >= 1


(***************************************************************************)
(* C27  No stale response.  The payload returned to a foreground read      *)
(* (GetDi, GetAi) comes from a response frame of its opcode that the       *)
(* reader parsed after the command of that read was written.               *)
(***************************************************************************)
C27_NoStaleResponse ==
    (call.state = "returned" /\ call.action.type \in {"GetDi", "GetAi"}) =>
        \E i \in (call.seen + 1)..Len(emitted) :
            emitted[i][1] = (IF call.action.type = "GetDi" THEN 3 ELSE 6)


(***************************************************************************)
(* C28  Per-device serialization.  With two concurrent callers on one      *)
(* device, the frames one dispatcher call writes are next to each other on *)
(* the wire (a mux select sequence is not interrupted by the other         *)
(* caller's command), and a read returns the response to its own command.  *)
(***************************************************************************)
OwnPin(t) == IF call[t].port = "DI1" THEN 2 ELSE 10

C28_PerDeviceSerialization ==
    \A t \in {1, 2} :
        /\ \A i \in 1..(Len(call[t].at) - 1) : call[t].at[i + 1] = call[t].at[i] + 1
        /\ (call[t].pc = "returned" /\ call[t].action.type = "GetDi") =>
               call[t].value = << OwnPin(t) = 2 >>


(***************************************************************************)
(* C29  CAN queue hand-off.  A drain of bus B takes the whole queue of B,  *)
(* in arrival order, and leaves it empty, so no frame is returned twice;   *)
(* it leaves the queues of the other busses as they were; the reader only  *)
(* appends the frames it parses behind those already queued for their bus; *)
(* nothing else touches a queue, so no frame is lost.                      *)
(***************************************************************************)
\* The RECV_CAN frames for a bus among the frames parsed in one reader step.
RECURSIVE ArrivedOn(_, _)
ArrivedOn(frames, bus) ==
    IF frames = <<>> THEN <<>>
    ELSE (IF Head(frames)[1] = 9 /\ Head(frames)[2] = bus THEN << Tail(Head(frames)) >> ELSE <<>>)
         \o ArrivedOn(Tail(frames), bus)

DrainLaw(op, bus) ==
    LET queue == QueuedCan(bus)
        old   == device_can_busses[bus]
        new   == device_can_busses'[bus]
    IN  /\ QueuedCan(bus)' = <<>>
        /\ \A other \in CanBusses \ {bus} : QueuedCan(other)' = QueuedCan(other)
        /\ op # "clear_can" =>
              /\ Len(new) = Len(old) + Len(queue)
              /\ \A k \in 1..Len(queue) :
                    /\ new[Len(old) + k].signal.i = DecodeSignal(queue[k])
                    /\ new[Len(old) + k].data = DecodeData(queue[k])

C29_Step ==
    /\ \A op \in {"get_last_can", "get_all_can", "clear_can"}, name \in CanBusName, signal \in Filters :
           (ret'.op = op /\ ret'.bus = CanBusIndex(name) /\ ret'.signal = signal
               /\ CanAction(op, name, signal)) => DrainLaw(op, CanBusIndex(name))
    /\ ReaderDrain =>
           \A bus \in CanBusses :
               QueuedCan(bus)' =
                   QueuedCan(bus) \o ArrivedOn(SubSeq(emitted', Len(emitted) + 1, Len(emitted')), bus)
    /\ DeviceSendStore => parsed_can_messages' = parsed_can_messages

C29_CanQueueHandOff == [][C29_Step]_vars

\* A bus was drained into its store while a frame for the other bus stays queued.
C29_Witness ==
    /\ ret.op = "get_all_can"
    /\ QueuedCan(ret.bus) = <<>>
    /\ Len(device_can_busses[ret.bus]) >= 1
    /\ \E other \in CanBusses \ {ret.bus} : QueuedCan(other) # <<>>


(***************************************************************************)
(* C30  CAN actions drain first.  SendCan, GetLastCan, GetAllCan and       *)
(* ClearCan on bus B first move every frame queued for B into the store of *)
(* B, in arrival order, and then send, query or clear: SendCan leaves the  *)
(* stored messages followed by the queued ones and writes its frame,       *)
(* GetAllCan(None) returns the stored messages followed by the queued      *)
(* ones, ClearCan(None) leaves the store and the queue empty; no other     *)
(* step changes a store.                                                   *)
(***************************************************************************)
Drained(bus) == device_can_busses[bus] \o DecodeAll(QueuedCan(bus))

C30_Step ==
    /\ \A name \in CanBusName :
           LET bus == CanBusIndex(name)
           IN  /\ (call'.n = call.n + 1 /\ call'.port = name /\ SendCanAction) =>
                      /\ device_can_busses'[bus] = Drained(bus)
                      /\ QueuedCan(bus)' = <<>>
                      /\ Len(events') = Len(events) + 1
                      /\ events'[Len(events')].frame[1] = 8
                      /\ events'[Len(events')].frame[2] = bus
               /\ (ret'.op # "none" /\ ret'.bus = bus /\ ret'.signal = NoneSig
                      /\ CanAction(ret'.op, name, NoneSig)) =>
                      /\ QueuedCan(bus)' = <<>>
                      /\ ret'.op = "get_all_can" =>
                             (ret'.value = Drained(bus) /\ device_can_busses'[bus] = Drained(bus))
                      /\ ret'.op = "get_last_can" => device_can_busses'[bus] = Drained(bus)
                      /\ ret'.op = "clear_can" => device_can_busses'[bus] = <<>>
    /\ (DeviceSendStore \/ ReaderDrain) => device_can_busses' = device_can_busses

C30_CanActionsDrainFirst == [][C30_Step]_vars

\* A SendCan was the only CAN action so far, and the store of its bus holds the
\* frame that was queued when it was called.
C30_Witness ==
    /\ call.action.type = "SendCan"
    /\ ret.op = "none"
    /\ Len(device_can_busses[CanBusIndex(call.port)]) >= 1
    /\ QueuedCan(CanBusIndex(call.port)) = <<>>

(***************************************************************************)
(* The response slot of an opcode.  The device answers read commands, the  *)
(* reader parses what has arrived, the foreground issues GetDi / GetAi and *)
(* polls.  Several answers of one opcode may be parsed before a poll.      *)
(***************************************************************************)
LatestAnswers == { <<READ_GPIO, 1>>, <<READ_GPIO, 0>>, <<READ_ADC, 0, 8>>, <<READ_ADC, 8, 0>> }

DeviceReading == \E f \in LatestAnswers : Transmit(f)

ReadCommand ==
    \E c \in { << Act("GetDi", FALSE), "DI1" >>, << Act("GetAi", FALSE), "AI1" >> } :
        DoAction(c[1], c[2], MaxCalls)

NextLatest == ReadCommand \/ Poll \/ DeviceReading \/ ReaderDrain

SpecLatest == InitNoNetMap /\ [][NextLatest]_vars

\* The frames of opcode op in a list of parsed frames, and the payload of the last one.
FramesOf(op, frames) == { i \in 1..Len(frames) : frames[i][1] = op }

LatestPayload(op, frames) ==
    LET i == CHOOSE j \in FramesOf(op, frames) : \A k \in FramesOf(op, frames) : k <= j
    IN  Tail(frames[i])

NewlyParsed == SubSeq(emitted', Len(emitted) + 1, Len(emitted'))

C31_Step ==
    /\ (emitted' # emitted) =>
          \A op \in {READ_GPIO, READ_ADC} :
             IF FramesOf(op, NewlyParsed) # {}
             THEN /\ op \in DOMAIN parsed_readings'
                  /\ parsed_readings'[op] = LatestPayload(op, NewlyParsed)
             ELSE /\ (op \in DOMAIN parsed_readings') = (op \in DOMAIN parsed_readings)
                  /\ op \in DOMAIN parsed_readings => parsed_readings'[op] = parsed_readings[op]
    /\ (call.state = "waiting" /\ call'.state = "returned") =>
          LET op == AwaitedOpcode(call.action.type)
              other == IF op = READ_GPIO THEN READ_ADC ELSE READ_GPIO
              latest == LatestPayload(op, emitted)
          IN  /\ call'.value = IF op = READ_GPIO THEN read_gpio_result(latest).value
                               ELSE read_adc_result(latest, ModeOf(call.port)).value
              /\ op \notin DOMAIN parsed_readings'
              /\ (other \in DOMAIN parsed_readings') = (other \in DOMAIN parsed_readings)
              /\ other \in DOMAIN parsed_readings =>
                    parsed_readings'[other] = parsed_readings[other]

\* C31: when several responses of one opcode are parsed before the foreground polls,
\* the slot of that opcode holds the payload of the last one and the poll returns
\* that payload and empties the slot, so the earlier payload is never returned; a
\* response of another opcode leaves the slot as it was.
C31_LatestResponseWins == [][C31_Step]_vars

\* The only call of the session returned the second of two GPIO answers, both parsed
\* before it polled.
C31_Witness ==
    /\ call.n = 1 /\ call.state = "returned" /\ call.action.type = "GetDi"
    /\ emitted = << <<READ_GPIO, 1>>, <<READ_GPIO, 0>> >>
    /\ call.value = << FALSE >>

(***************************************************************************)
(* The lock of ThreadedSerial.  The reader thread runs the loop of run     *)
(* statement by statement: _read, the length test, then _process_readings  *)
(* inside "with self.lock"; the foreground pops a response or a CAN queue  *)
(* inside "with self.lock".  call.lock is the holder of the lock, call.fg  *)
(* the foreground's position, and call.reader_access / call.fg_access      *)
(* note the object each thread touched last and whether it held the lock.  *)
(***************************************************************************)
NoAccess == [object |-> "none", held |-> FALSE]

Access(object, task) == [object |-> object, held |-> call.lock = task]

InitMutex ==
    /\ serial_in = <<>>
    /\ readings = <<>>
    /\ parsed_readings = EmptyDict
    /\ parsed_can_messages = EmptyDict
    /\ sent = <<>>
    /\ emitted = <<>>
    /\ stop_event = [d \in TestDevices |-> FALSE]
    /\ reader = [d \in TestDevices |-> "loop"]
    /\ device_can_busses = [b \in CanBusses |-> <<>>]
    /\ ret = NoRet
    /\ call = [lock |-> "free", fg |-> "idle", key |-> 0, got |-> <<>>,
               reader_access |-> NoAccess, fg_access |-> NoAccess]
    /\ InitFacade
    /\ ~maybe_net_map.loaded
    /\ disc = NoDisc

MutexTraffic == { <<READ_GPIO, 1>>, <<RECV_CAN, 1, 0, 0, 1, 35, 0>> }

DeviceSendMutex == \E f \in MutexTraffic : Transmit(f)

\* while not self.stop_event.is_set(): self._read()
\* serial_con.read(1) returns nothing at its timeout; otherwise the byte is appended
\* to self.readings.
read ==
    /\ reader[Eng] = "loop"
    /\ ~stop_event[Eng]
    /\ IF serial_in = <<>>
       THEN UNCHANGED << serial_in, readings, call >>
       ELSE /\ serial_in' = Tail(serial_in)
            /\ readings' = Append(readings, Head(serial_in))
            /\ call' = [call EXCEPT !.reader_access = Access("readings", "reader")]
    /\ reader' = [reader EXCEPT ![Eng] = "test"]
    /\ UNCHANGED << parsed_readings, parsed_can_messages, sent, emitted, stop_event,
                    canVars, facadeVars, discVars >>

\* if len(self.readings) > 0:
TestReadings ==
    /\ reader[Eng] = "test"
    /\ reader' = [reader EXCEPT ![Eng] = IF Len(readings) > 0 THEN "acquire" ELSE "loop"]
    /\ call' = [call EXCEPT !.reader_access = Access("readings", "reader")]
    /\ UNCHANGED << engineVars, stop_event, canVars, facadeVars, discVars >>

\* with self.lock:  (the reader blocks until the lock is free)
ReaderAcquire ==
    /\ reader[Eng] = "acquire"
    /\ call.lock = "free"
    /\ call' = [call EXCEPT !.lock = "reader"]
    /\ reader' = [reader EXCEPT ![Eng] = "locked"]
    /\ UNCHANGED << engineVars, stop_event, canVars, facadeVars, discVars >>

\* self._process_readings() and the end of the with block; an exception of the
\* parser releases the lock and ends the thread.
ProcessAndRelease ==
    /\ reader[Eng] = "locked"
    /\ LET r == process_readings(readings, parsed_readings, parsed_can_messages)
       IN  /\ readings' = r.rest
           /\ parsed_readings' = r.pr
           /\ parsed_can_messages' = r.pc
           /\ emitted' = emitted \o r.out
           /\ reader' = [reader EXCEPT ![Eng] = IF r.err = "none" THEN "loop" ELSE "crashed"]
    /\ call' = [call EXCEPT !.lock = "free",
                            !.reader_access = Access("parsed_readings", "reader")]
    /\ UNCHANGED << serial_in, sent, stop_event, canVars, facadeVars, discVars >>

\* The loop condition fails: self._close()
ReaderClose ==
    /\ reader[Eng] = "loop"
    /\ stop_event[Eng]
    /\ reader' = [reader EXCEPT ![Eng] = "closed"]
    /\ UNCHANGED << engineVars, stop_event, canVars, facadeVars, callVars, discVars >>

\* _get_readings / get_parsed_can_messages: with self.lock:
FgAcquire ==
    /\ call.fg = "idle"
    /\ call.lock = "free"
    /\ \E what \in {"response", "can"} :
          call' = [call EXCEPT !.lock = "foreground", !.fg = what,
                               !.key = IF what = "response" THEN READ_GPIO ELSE 1]
    /\ UNCHANGED << engineVars, stop_event, reader, canVars, facadeVars, discVars >>

\* val = self.parsed_readings.pop(command, None) / self.parsed_can_messages.pop(bus, []),
\* the return and the end of the with block.
FgPopAndRelease ==
    /\ call.fg \in {"response", "can"}
    /\ IF call.fg = "response"
       THEN /\ parsed_readings' = DictPop(parsed_readings, call.key)
            /\ call' = [call EXCEPT !.lock = "free", !.fg = "idle",
                                    !.got = IF call.key \in DOMAIN parsed_readings
                                            THEN parsed_readings[call.key] ELSE <<>>,
                                    !.fg_access = Access("parsed_readings", "foreground")]
            /\ UNCHANGED parsed_can_messages
       ELSE /\ parsed_can_messages' = DictPop(parsed_can_messages, call.key)
            /\ call' = [call EXCEPT !.lock = "free", !.fg = "idle",
                                    !.got = IF call.key \in DOMAIN parsed_can_messages
                                            THEN parsed_can_messages[call.key] ELSE <<>>,
                                    !.fg_access = Access("parsed_can_messages", "foreground")]
            /\ UNCHANGED parsed_readings
    /\ UNCHANGED << serial_in, readings, sent, emitted, stop_event, reader,
                    canVars, facadeVars, discVars >>

NextMutex ==
    \/ DeviceSendMutex \/ read \/ TestReadings \/ ReaderAcquire \/ ProcessAndRelease
    \/ ReaderClose \/ FgAcquire \/ FgPopAndRelease \/ stop

SpecMutex == InitMutex /\ [][NextMutex]_vars

\* C32: every access to the byte buffer, the response slots and the CAN queues is
\* made by a thread that holds the lock of the device.
C32_MutexDiscipline ==
    /\ call.reader_access.object # "none" => call.reader_access.held
    /\ call.fg_access.object # "none" => call.fg_access.held

\* The reader never works on the buffers while the foreground is inside its
\* critical section.
C32_NoSimultaneousAccess == ~(reader[Eng] = "locked" /\ call.fg \in {"response", "can"})

(***************************************************************************)
(* The shutdown registry as a dictionary keyed by BoardNet.                *)
(***************************************************************************)
RegistryOps == {"do", "ao", "set_do", "hiZ_do", "set_ao", "hiZ_ao"}

Registered(reg, key) == \E i \in 1..Len(reg) : reg[i].key = key

C33_Step ==
    (last'.op \in RegistryOps /\ reader' = reader /\ scope' = scope) =>
        LET key == BN(last'.board, last'.net)
        IN  /\ \A i, j \in 1..Len(shutdown_components') :
                  shutdown_components'[i].key = shutdown_components'[j].key => i = j
            /\ Registered(shutdown_components, key) =>
                  /\ last'.exc # "AttributeError"
                  /\ last'.op \in {"do", "ao"} => last'.exc = "none"
                  /\ Len(shutdown_components') = Len(shutdown_components)

\* C33: after do(), ao(), set_do, hiZ_do, set_ao and hiZ_ao calls the registry holds
\* one entry per distinct (board, net); a call on a pair that is already registered
\* succeeds in registering it again and adds no second entry.
C33_RegistryKeys == [][C33_Step]_vars

C34_Step ==
    (/\ last'.op \in {"set_do", "hiZ_do", "set_ao", "hiZ_ao"}
     /\ last'.exc \in {"ConnectionError", "EngineError", "RangeError"}
     /\ reader' = reader /\ scope' = scope) =>
        shutdown_components' = shutdown_components

\* C34: a set_do, hiZ_do, set_ao or hiZ_ao call that fails with ConnectionError,
\* EngineError or RangeError leaves the shutdown registry with the entries it had
\* before the call.
C34_FailedOutputKeepsRegistry == [][C34_Step]_vars

\* The lines a mux with n select pins can address.
AddressableLines(mux) == 0..(2 ^ Len(mux.select_ports) - 1)

C35_Step ==
    (call'.n = call.n + 1) =>
        \A m \in DeviceMuxs(Eng) : \A k \in 0..MaxChannel :
            (call'.port = MuxChannelName(m, k) /\ k \notin AddressableLines(m)) =>
                /\ call'.exc = "EngineError"
                /\ events' = events

\* C35: a name NAME_n is a mux channel only if NAME is a configured mux and
\* 0 <= n < 2^(number of select pins); a dispatcher call on NAME_n with n outside
\* that range fails with EngineError and writes no select pin.
C35_MuxChannelRange == [][C35_Step]_vars

(***************************************************************************)
(* The dispatcher of device Y, whose port table has the names YMUX_0 and   *)
(* YMUX_1 that are also channels of its mux YMUX, and which has neither a  *)
(* DAC nor a POT configuration.  No device answers on the link of Y in     *)
(* this session, so a read command either gets its answer or runs into the *)
(* deadline of get_readings_with_timeout (SerialError).                    *)
(***************************************************************************)
Other == "Y"

OtherActions ==
    { Act("SetDo", TRUE), Act("HiZDo", FALSE), Act("GetDi", FALSE),
      Act("SetAo", 10), Act("SetPot", 55) }

OtherNames ==
    { p.name : p \in DevicePorts(Other) }
    \cup { MuxChannelName(m, k) : m \in DeviceMuxs(Other), k \in 0..1 }
    \cup {"NOPE"}

\* TestDevice.do_action on device Y.
DoActionOn(dev, action, port, answer, limit) ==
    /\ call.state # "waiting"
    /\ call.n < limit
    /\ LET r == device_do_action(dev, action, port)
           reads == r.exc = "none" /\ action.type = "GetDi"
       IN  /\ events' = ser_write(events, r.writes)
           /\ call' = [n |-> call.n + 1, action |-> action, port |-> port,
                       state |-> IF r.exc # "none" \/ (reads /\ answer = <<>>)
                                 THEN "raised" ELSE "returned",
                       polls |-> 0,
                       exc |-> IF r.exc # "none" THEN r.exc
                               ELSE IF reads /\ answer = <<>> THEN "SerialError" ELSE "none",
                       value |-> IF reads /\ answer # <<>> THEN read_gpio_result(answer).value
                                 ELSE <<>>,
                       seen |-> Len(emitted), wrote |-> Len(r.writes)]
    /\ UNCHANGED << engineVars, stop_event, reader, canVars, maybe_net_map,
                    shutdown_components, touched, last, scope, discVars >>

DispatchOther ==
    \E action \in OtherActions, port \in OtherNames, answer \in {<<>>, <<0>>, <<1>>} :
        /\ (action.type # "GetDi" => answer = <<>>)
        /\ DoActionOn(Other, action, port, answer, MaxCalls)

NextOther == DispatchOther

SpecOther == InitNoNetMap /\ [][NextOther]_vars

\* The names of a device that are both a direct port and a mux channel.
AmbiguousNames(dev) ==
    { p.name : p \in DevicePorts(dev) }
    \cap { MuxChannelName(m, k) : m \in DeviceMuxs(dev), k \in 0..MaxChannel }

DirectPort(dev, name) == CHOOSE p \in DevicePorts(dev) : p.name = name

\* The decision table by the mode of a direct port.
LegalOn(type, mode) ==
    \/ type \in {"SetDo", "HiZDo"} /\ mode = "DO"
    \/ type = "GetDi" /\ mode = "DI"
    \/ type \in {"SetAo", "HiZAo"} /\ mode = "AO"
    \/ type = "GetAi" /\ StartsWithAI(mode)
    \/ type = "SetPot" /\ mode = "POT"

NewEvents == SubSeq(events', Len(events) + 1, Len(events'))

C36_Step ==
    (call'.n = call.n + 1 /\ call'.port \in AmbiguousNames(Other)) =>
        LET p == DirectPort(Other, call'.port)
        IN  /\ \A i \in 1..Len(NewEvents) : NewEvents[i].frame[2] = p.port
            /\ (call'.exc = "EngineError") = ~LegalOn(call'.action.type, p.mode)

\* C36: an action on a name that is both a direct port and a mux channel is resolved
\* against the direct port: it writes no select pin, its command addresses the pin
\* of the direct port, and it is rejected exactly when the mode of the direct port
\* does not support the action.
C36_PortBeforeMux == [][C36_Step]_vars

(***************************************************************************)
(* The CAN operations of the facade with their board argument.             *)
(* Hil2.send_can / get_last_can / get_all_can / clear_can pass             *)
(* maybe_hil_con_from_net(hil_board, can_bus) to TestDeviceManager         *)
(* .do_action, which reads hil_dut_con.device: on None (board not managed) *)
(* that is an AttributeError.                                              *)
(***************************************************************************)
CanBoards == {"X", "Y", "Dash"}

CanOps == {"send_can", "get_last_can", "get_all_can", "clear_can"}

CanActionType(op) ==
    IF op = "send_can" THEN "SendCan" ELSE IF op = "get_last_can" THEN "GetLastCan"
    ELSE IF op = "get_all_can" THEN "GetAllCan" ELSE "ClearCan"

\* TestDeviceManager.do_action on the Optional connection.
manager_do_action_optional(action, maybe_con) ==
    IF ~maybe_con.some THEN Raise("AttributeError")
    ELSE manager_do_action(action, Con(maybe_con.device, maybe_con.port))

Hil2Can(op, board, name) ==
    LET maybe_con == maybe_hil_con_from_net(board, name)
        arg == IF op = "send_can" THEN [signal |-> "Foo", data |-> <<85>>] ELSE NoneSig
        r == manager_do_action_optional(Act(CanActionType(op), arg), maybe_con)
    IN  IF r.exc # "none"
        THEN /\ ret' = [op |-> op, board |-> board, exc |-> r.exc]
             /\ events' = ser_write(events, r.writes)
             /\ UNCHANGED << engineVars, stop_event, reader, device_can_busses, maybe_net_map,
                             shutdown_components, touched, last, scope, callVars, discVars >>
        ELSE IF op = "send_can"
        THEN DoAction(Act("SendCan", arg), name, MaxDispatch)
        ELSE CanAction(op, name, NoneSig)

FacadeCan == \E op \in CanOps, board \in CanBoards, name \in CanBusName : Hil2Can(op, board, name)

NextBoardCan == DeviceSendStore \/ ReaderDrain \/ FacadeCan

SpecBoardCan == InitNoNetMap /\ [][NextBoardCan]_vars

C37_Step ==
    (ret' # ret /\ ret'.op \in CanOps /\ "board" \in DOMAIN ret') =>
        (ret'.board \notin TestDevices =>
            /\ ret'.exc = "ConnectionError"
            /\ events' = events)

\* C37: send_can, get_last_can, get_all_can and clear_can called with a board that is
\* not a managed HIL device fail with ConnectionError and write no byte to any link.
C37_CanOnUnmanagedBoard == [][C37_Step]_vars

\* serial_helper.SERIAL_RETRIES: READ_ID attempts per candidate port.
SERIAL_RETRIES == 5

\* The ports of the scan that are the handle claimed for an expected id.
ClaimsOf(port) == { i \in 1..Len(disc.devices) : disc.devices[i].port = port }

\* C38: when discovery ends, every candidate port that was opened is either the
\* handle claimed for exactly one expected id or closed, no id is claimed twice, and
\* no port received more than SERIAL_RETRIES READ_ID attempts.
C38_DiscoveryPortOwnership ==
    (disc.pc = "done") =>
        /\ \A port \in disc.opened :
              \/ port \in disc.closed /\ ClaimsOf(port) = {}
              \/ port \notin disc.closed /\ Cardinality(ClaimsOf(port)) = 1
        /\ \A i, j \in 1..Len(disc.devices) :
              disc.devices[i].id = disc.devices[j].id => i = j
        /\ disc.attempts <= SERIAL_RETRIES

(***************************************************************************)
(* Calls the dispatcher rejects, next to read calls whose answer arrives.  *)
(* Device X has a DAC and a POT configuration, device Y has neither.       *)
(***************************************************************************)
RejectActions ==
    { Act("SetDo", TRUE), Act("GetAi", FALSE),
      Act("SetAo", DacConfig.reference_v), Act("SetAo", DacConfig.reference_v + 1),
      Act("SetPot", PotConfig.wiper_ohms), Act("SetPot", PotConfig.wiper_ohms - 1) }

RejectNames == {"DO1", "AO1", "AI1", "POT1", "AMUX_1", "NOPE"}

DispatchReject ==
    \E action \in RejectActions, port \in RejectNames : DoAction(action, port, MaxDispatch)

DispatchUnconfigured ==
    \E c \in { << Act("SetAo", 10), "AO2" >>, << Act("SetPot", 55), "POT2" >>,
               << Act("SetDo", TRUE), "YMUX_0" >> } :
        DoActionOn(Other, c[1], c[2], <<>>, MaxDispatch)

DeviceAdc == \E f \in { <<READ_ADC, 0, 8>>, <<READ_ADC, 8, 0>> } : Transmit(f)

NextReject == DispatchReject \/ DispatchUnconfigured \/ Poll \/ DeviceAdc \/ ReaderDrain

SpecReject == InitNoNetMap /\ [][NextReject]_vars

Rejected(c) == c.state = "raised" /\ c.exc \in {"EngineError", "RangeError"}

C39_Step ==
    (call' # call /\ Rejected(call')) =>
        IF call'.n = call.n + 1
        THEN /\ events' = events
             /\ call'.wrote = 0
        ELSE /\ call.state = "waiting"
             /\ call'.exc = "RangeError"
             /\ call'.action.type = "GetAi"
             /\ call'.wrote > 0

NoTest == [id |-> 0, raises |-> FALSE]

InitRunner ==
    /\ serial_in = <<>>
    /\ readings = <<>>
    /\ parsed_readings = EmptyDict
    /\ parsed_can_messages = EmptyDict
    /\ sent = <<>>
    /\ emitted = <<>>
    /\ stop_event = [d \in TestDevices |-> FALSE]
    /\ reader = [d \in TestDevices |-> "running"]
    /\ device_can_busses = [b \in CanBusses |-> <<>>]
    /\ ret = NoRet
    /\ call = [g_tests |-> <<>>, g_active_test |-> 0, g_setup_fn |-> FALSE,
               g_teardown_fn |-> FALSE, pc |-> "idle", pending |-> <<>>,
               test |-> NoTest, added |-> 0, ran |-> FALSE, exc |-> "none"]
    /\ InitFacade
    /\ ~maybe_net_map.loaded
    /\ disc = NoDisc

RunnerUnchanged ==
    UNCHANGED << engineVars, stop_event, reader, canVars, maybe_net_map,
                 shutdown_components, touched, last, scope, discVars >>

Called(what, id) == [t |-> what, test |-> id]

set_setup_fn ==
    /\ call.pc = "idle"
    /\ call' = [call EXCEPT !.g_setup_fn = TRUE]
    /\ UNCHANGED events
    /\ RunnerUnchanged

set_teardown_fn ==
    /\ call.pc = "idle"
    /\ call' = [call EXCEPT !.g_teardown_fn = TRUE]
    /\ UNCHANGED events
    /\ RunnerUnchanged

\* add_test: register the test, or with run_now call _run_single_test at once.
add_test ==
    \E raises \in BOOLEAN, run_now \in BOOLEAN :
        /\ call.pc = "idle"
        /\ call.added < MaxTests
        /\ LET test_fn == [id |-> call.added + 1, raises |-> raises]
           IN  call' = IF run_now
                       THEN [call EXCEPT !.added = call.added + 1, !.test = test_fn,
                                         !.pending = <<>>, !.pc = "enter", !.exc = "none"]
                       ELSE [call EXCEPT !.added = call.added + 1,
                                         !.g_tests = Append(call.g_tests, test_fn)]
        /\ UNCHANGED events
        /\ RunnerUnchanged

\* run_tests: for test_fn in g_tests: _run_single_test(test_fn)
run_tests ==
    /\ call.pc = "idle"
    /\ ~call.ran
    /\ call' = [call EXCEPT !.pending = call.g_tests, !.pc = "loop", !.exc = "none",
                            !.ran = TRUE]
    /\ UNCHANGED events
    /\ RunnerUnchanged

NextTest ==
    /\ call.pc = "loop"
    /\ call' = IF call.pending = <<>>
               THEN [call EXCEPT !.pc = "idle", !.test = NoTest]
               ELSE [call EXCEPT !.test = Head(call.pending), !.pending = Tail(call.pending),
                                 !.pc = "enter"]
    /\ UNCHANGED events
    /\ RunnerUnchanged

\* ActiveTestContext.__enter__ and the setup function.
EnterAndSetup ==
    /\ call.pc = "enter"
    /\ call' = [call EXCEPT !.g_active_test = call.test.id, !.pc = "body"]
    /\ events' = IF call.g_setup_fn THEN Append(events, Called("setup", call.test.id))
                 ELSE events
    /\ RunnerUnchanged

\* test_fn.run(); an exception of the body leaves the with block at once.
RunBody ==
    /\ call.pc = "body"
    /\ events' = Append(events, Called("body", call.test.id))
    /\ call' = [call EXCEPT !.pc = IF call.test.raises THEN "exit_raised" ELSE "teardown"]
    /\ RunnerUnchanged

\* The teardown function after the summary, then __exit__ without exception.
TeardownAndExit ==
    /\ call.pc = "teardown"
    /\ events' = IF call.g_teardown_fn THEN Append(events, Called("teardown", call.test.id))
                 ELSE events
    /\ call' = [call EXCEPT !.g_active_test = 0, !.pc = "loop"]
    /\ RunnerUnchanged

\* __exit__ with an exception: g_active_test = None, return False; the exception
\* leaves _run_single_test and the loop of run_tests.
ExitRaised ==
    /\ call.pc = "exit_raised"
    /\ call' = [call EXCEPT !.g_active_test = 0, !.pc = "idle", !.pending = <<>>,
                            !.exc = "Exception"]
    /\ UNCHANGED events
    /\ RunnerUnchanged

NextRunner ==
    \/ set_setup_fn \/ set_teardown_fn \/ add_test \/ run_tests \/ NextTest
    \/ EnterAndSetup \/ RunBody \/ TeardownAndExit \/ ExitRaised

SpecRunner == InitRunner /\ [][NextRunner]_vars

\* The test whose context is left by this step has finished.
C40_Step ==
    (call.g_active_test # 0 /\ call'.g_active_test = 0) =>
        LET id == call.g_active_test
            setups == { i \in 1..Len(events') : events'[i] = Called("setup", id) }
            bodies == { i \in 1..Len(events') : events'[i] = Called("body", id) }
            teardowns == { i \in 1..Len(events') : events'[i] = Called("teardown", id) }
        IN  /\ Cardinality(bodies) = 1
            /\ call.g_setup_fn =>
                  /\ Cardinality(setups) = 1
                  /\ \A i \in setups, j \in bodies : i < j
            /\ call.g_teardown_fn =>
                  /\ Cardinality(teardowns) = 1
                  /\ \A i \in teardowns, j \in bodies : j < i
            /\ \A i, j \in 1..Len(events') :
                  (events'[i].t = "body" /\ events'[j].t = "body" /\ i < j
                   /\ events'[i].test \in { call.g_tests[k].id : k \in 1..Len(call.g_tests) }
                   /\ events'[j].test \in { call.g_tests[k].id : k \in 1..Len(call.g_tests) })
                     => events'[i].test < events'[j].test

=============================================================================
